---- MODULE Spec2Model ----
(***************************************************************************)
(* Webhook ingestion and event routing of the BigCommerce integration:     *)
(* signature admission gate, JSON parsing, store lookup, the webhook log   *)
(* (deduplication ledger), scope dispatch, order handlers and the          *)
(* conversion service.  Every request is one execution of                  *)
(* handle_bigcommerce_webhook; requests interleave at the awaits on the    *)
(* database and on the two HTTP collaborators.                             *)
(***************************************************************************)
EXTENDS Integers, Sequences, FiniteSets, TLC

\* Number of webhook deliveries of one behaviour: of one input delivered
\* repeatedly, and of a pair of different inputs or of one event whose handler
\* calls the commerce platform or the affiliate backend.
MaxDeliveries == 3

MaxPairDeliveries == 2

Requests == 1..MaxDeliveries

\* Python's None where a number is expected (data.status.new_status_id).
NoneId == -1

(***************************************************************************)
(* Signature verifier (middleware/hmac_verify.py).                         *)
(* A hex digest is modelled by the key and message it was computed from,   *)
(* the case of its hex letters and whether it was cut short; the HMAC is   *)
(* taken to be collision free.                                             *)
(***************************************************************************)
ClientSecret == "client_secret"

NoHeader == [kind |-> "none", key |-> "", msg |-> "", upper |-> FALSE, cut |-> FALSE]

EmptyHeader == [kind |-> "empty", key |-> "", msg |-> "", upper |-> FALSE, cut |-> FALSE]

\* hmac.new(key, msg, sha256).hexdigest(): lower-case, full length.
hmac_hexdigest(key, msg) ==
    [kind |-> "hex", key |-> key, msg |-> msg, upper |-> FALSE, cut |-> FALSE]

\* str.lower() on a header value.
str_lower(s) == IF s.kind = "hex" THEN [s EXCEPT !.upper = FALSE] ELSE s

\* A header value with a character outside ASCII (the server hands header
\* bytes 0x80..0xFF to the application decoded as latin-1).
NonAsciiHeader ==
    [kind |-> "nonascii", key |-> "", msg |-> "", upper |-> FALSE, cut |-> FALSE]

\* Python truthiness of an optional string: None and "" are falsy.
Truthy(s) == s.kind \in {"hex", "nonascii"}

\* hmac.compare_digest(a, b) on two str: raises TypeError when either holds a
\* non-ASCII character, else tells whether they are equal.
compare_digest(a, b) ==
    IF a.kind = "nonascii" \/ b.kind = "nonascii"
    THEN [exc |-> "TypeError", value |-> FALSE]
    ELSE [exc |-> "", value |-> a = b]

\* The exception raised ("" for none) and the value returned.
verify_webhook_hmac(payload, signature) ==
    IF ~Truthy(signature)
    THEN [exc |-> "", value |-> FALSE]
    ELSE compare_digest(str_lower(hmac_hexdigest(ClientSecret, payload)),
                        str_lower(signature))

NoResult == [status |-> "none"]

\* What a request is answered with: an HTTPException (code 400, 401), an
\* exception nobody catches (code 500) or the dict the endpoint returns (200).
NoResponse == [code |-> 0, status |-> "", detail |-> "", result |-> NoResult]

HTTPException(code, detail) == [NoResponse EXCEPT !.code = code, !.detail = detail]

Unhandled(exc) == [NoResponse EXCEPT !.code = 500, !.detail = exc]

Ack(status, detail, result) ==
    [code |-> 200, status |-> status, detail |-> detail, result |-> result]

\* The HTTPException the dependency raises (or the exception that escapes
\* it), NoResponse when it returns the body.
verify_webhook_signature(hmac_header, body) ==
    IF ~Truthy(hmac_header) THEN HTTPException(401, "Missing HMAC header")
    ELSE IF verify_webhook_hmac(body, hmac_header).exc # ""
         THEN Unhandled(verify_webhook_hmac(body, hmac_header).exc)
    ELSE IF ~verify_webhook_hmac(body, hmac_header).value
         THEN HTTPException(401, "Invalid HMAC signature")
         ELSE NoResponse

\* The middleware applies the same two tests to the same header and body.
WebhookHMACMiddleware_dispatch(hmac_header, body) ==
    IF ~Truthy(hmac_header) THEN HTTPException(401, "Missing HMAC header")
    ELSE IF verify_webhook_hmac(body, hmac_header).exc # ""
         THEN Unhandled(verify_webhook_hmac(body, hmac_header).exc)
    ELSE IF ~verify_webhook_hmac(body, hmac_header).value
         THEN HTTPException(401, "Invalid HMAC signature")
         ELSE NoResponse

(***************************************************************************)
(* Request bodies.  A body is either bytes that are no UTF-8 text, text    *)
(* that is no JSON document, a JSON document that is no object, or a JSON  *)
(* object; for an object, keys is the order of its members in the text.    *)
(* A string that the code splits is a sequence of characters.              *)
(***************************************************************************)
StrVal(s) == [t |-> "str", s |-> s]

NullVal == [t |-> "null", s |-> <<>>]

NumVal == [t |-> "num", s |-> <<>>]

Obj(keys, producer, scope, id, st) ==
    [decodable |-> TRUE, wellformed |-> TRUE, isobj |-> TRUE, keys |-> keys,
     producer |-> producer, scope |-> scope, id |-> id, new_status_id |-> st]

UndecodableBody == [Obj(<<>>, NullVal, "", 0, NoneId) EXCEPT
                       !.decodable = FALSE, !.wellformed = FALSE, !.isobj = FALSE]

MalformedBody == [Obj(<<>>, NullVal, "", 0, NoneId) EXCEPT
                       !.wellformed = FALSE, !.isobj = FALSE]

NonObjectBody == [Obj(<<>>, NullVal, "", 0, NoneId) EXCEPT !.isobj = FALSE]

AllKeys == <<"scope", "data", "producer">>

Event(hash, scope, id, st) == Obj(AllKeys, StrVal(<<"s", "/">> \o hash), scope, id, st)

\* The same members as Event(..) written in another order.
Reordered(b) == [b EXCEPT !.keys = <<"producer", "scope", "data">>]

StatusA10 == Event(<<"a">>, "store/order/statusUpdated", 7, 10)

\* Order 7 of store a shipped (status 2), before it is completed (StatusA10).
StatusA2 == Event(<<"a">>, "store/order/statusUpdated", 7, 2)

StatusA4 == Event(<<"a">>, "store/order/statusUpdated", 7, 4)

StatusA1 == Event(<<"a">>, "store/order/statusUpdated", 7, 1)

CreatedA == Event(<<"a">>, "store/order/created", 7, NoneId)

UpdatedA == Event(<<"a">>, "store/order/updated", 7, NoneId)

CartA == Event(<<"a">>, "store/cart/created", 7, NoneId)

UninstalledA == Event(<<"a">>, "store/app/uninstalled", 0, NoneId)

ProductCreatedA == Event(<<"a">>, "store/product/created", 7, NoneId)

ProductUpdatedA == Event(<<"a">>, "store/product/updated", 7, NoneId)

ProductDeletedA == Event(<<"a">>, "store/product/deleted", 7, NoneId)

\* Product 9 of store a, synced before (InitialProducts), is deleted.
ProductDeletedA9 == Event(<<"a">>, "store/product/deleted", 9, NoneId)

ProductCreatedB == Event(<<"b">>, "store/product/created", 8, NoneId)

ProductDeletedB == Event(<<"b">>, "store/product/deleted", 8, NoneId)

StatusB3 == Event(<<"b">>, "store/order/statusUpdated", 8, 3)

StatusB5 == Event(<<"b">>, "store/order/statusUpdated", 8, 5)

StatusZ10 == Event(<<"z">>, "store/order/statusUpdated", 9, 10)

\* The event CartA as the platform sends it for store b.
CartB == Event(<<"b">>, "store/cart/created", 7, NoneId)

KnownStoreBodies ==
    {StatusA10, StatusA4, StatusA1, CreatedA, UpdatedA, CartA, UninstalledA,
     ProductCreatedA, ProductUpdatedA, ProductDeletedA,
     StatusB3, StatusB5, ProductCreatedB, ProductDeletedB, CartB}

IgnoredBodies ==
    {StatusZ10,
     Obj(<<"scope", "data">>, NullVal, "store/order/created", 7, NoneId),
     Obj(AllKeys, NullVal, "store/order/created", 7, NoneId),
     Obj(AllKeys, StrVal(<<>>), "store/order/created", 7, NoneId),
     Obj(AllKeys, StrVal(<<"s", "/">>), "store/order/created", 7, NoneId)}

Bodies ==
    KnownStoreBodies \cup IgnoredBodies \cup
    {UndecodableBody, MalformedBody, NonObjectBody,
     Obj(AllKeys, NumVal, "store/order/created", 7, NoneId)}

\* The header values a sender may attach to a body.
HeadersFor(b) ==
    {NoHeader, EmptyHeader, NonAsciiHeader,
     hmac_hexdigest(ClientSecret, b),
     [hmac_hexdigest(ClientSecret, b) EXCEPT !.upper = TRUE],
     [hmac_hexdigest(ClientSecret, b) EXCEPT !.cut = TRUE],
     hmac_hexdigest("other_secret", b),
     hmac_hexdigest(ClientSecret, CreatedA),
     hmac_hexdigest(ClientSecret, MalformedBody)}

Inputs == UNION {{[body |-> b, sig |-> h] : h \in HeadersFor(b)} : b \in Bodies}

Signed(b) == [body |-> b, sig |-> hmac_hexdigest(ClientSecret, b)]

\* The events whose handler calls the commerce platform or the affiliate backend.
CallingBodies ==
    {StatusA10, StatusA4, StatusB3, StatusB5,
     ProductCreatedA, ProductUpdatedA, ProductCreatedB}

\* The traffic of one behaviour: n deliveries, of one input delivered
\* repeatedly or of a pair of correctly signed events.
Scenarios ==
    {[inputs |-> {i}, n |-> IF i.body \in CallingBodies THEN MaxPairDeliveries
                                                       ELSE MaxDeliveries] :
        i \in Inputs} \cup
    {[inputs |-> p, n |-> MaxPairDeliveries] :
        p \in {{Signed(StatusA10), Signed(Reordered(StatusA10))},
               {Signed(UninstalledA), Signed(StatusA4)},
               {Signed(ProductCreatedA), Signed(ProductDeletedA)},
               {Signed(CartA), Signed(CartB)},
               {Signed(StatusA2), Signed(StatusA10)},
               {Signed(UninstalledA), Signed(ProductDeletedA9)}}}

(***************************************************************************)
(* json.loads, dict.get, str.split and the content hash.                   *)
(***************************************************************************)
\* json.loads(body): the exception it raises ("" for none) and the value.
json_loads(body) ==
    IF ~body.decodable THEN [exc |-> "UnicodeDecodeError", value |-> body]
    ELSE IF ~body.wellformed THEN [exc |-> "JSONDecodeError", value |-> body]
    ELSE [exc |-> "", value |-> body]

HasKey(payload, k) == \E i \in 1..Len(payload.keys) : payload.keys[i] = k

\* payload.get("producer", "")
get_producer(payload) ==
    IF HasKey(payload, "producer") THEN payload.producer ELSE StrVal(<<>>)

\* payload.get("scope", "")
get_scope(payload) == IF HasKey(payload, "scope") THEN payload.scope ELSE ""

RECURSIVE LastSegment(_)
\* producer.split("/")[-1]
LastSegment(s) ==
    IF s = <<>> THEN <<>>
    ELSE IF s[Len(s)] = "/" THEN <<>>
    ELSE Append(LastSegment(SubSeq(s, 1, Len(s) - 1)), s[Len(s)])

\* The split is made without the "if producer" guard.
ProducerTruthy_unguarded(v) == TRUE

\* Python truthiness of the producer value.
ProducerTruthy(v) == \/ v.t = "num"
                     \/ v.t = "str" /\ v.s # <<>>

\* json.dumps(payload, sort_keys=True): members in the order of their keys.
SortedKeys == <<"data", "producer", "scope">>

json_dumps_sorted(payload) ==
    [payload EXCEPT !.keys = SelectSeq(SortedKeys, LAMBDA k : HasKey(payload, k))]

\* sha256(...).hexdigest()[:32], taken to be collision free.
payload_hash(payload) == [sha256 |-> json_dumps_sorted(payload)]

(***************************************************************************)
(* Stores (models/store.py) and the orders the commerce platform returns.  *)
(***************************************************************************)
StoreIds == {"idA", "idB"}

\* brand_id "" is NULL: the store is not linked to a brand.  Both stores have
\* switched the auto_sync_products setting on.
InitialStores ==
    [i \in StoreIds |->
        IF i = "idA"
        THEN [id |-> "idA", store_hash |-> <<"a">>, access_token |-> "enc_tokA",
              brand_id |-> "brandA", is_active |-> TRUE, uninstalled_at |-> FALSE,
              auto_sync_products |-> TRUE]
        ELSE [id |-> "idB", store_hash |-> <<"b">>, access_token |-> "enc_tokB",
              brand_id |-> "", is_active |-> TRUE, uninstalled_at |-> FALSE,
              auto_sync_products |-> TRUE]]

NoStore == [id |-> "", store_hash |-> <<>>, access_token |-> "", brand_id |-> "",
            is_active |-> FALSE, uninstalled_at |-> FALSE,
            auto_sync_products |-> FALSE]

\* select(BigCommerceStore).where(store_hash == ..).scalar_one_or_none()
get_store_by_hash(table, store_hash) ==
    IF \E i \in DOMAIN table : table[i].store_hash = store_hash
    THEN table[CHOOSE i \in DOMAIN table : table[i].store_hash = store_hash]
    ELSE NoStore

(***************************************************************************)
(* Orders as get_order returns them.  Text is a sequence of characters; a  *)
(* value is a string, null or a number; a member that may be missing is    *)
(* Absent.                                                                 *)
(***************************************************************************)
Absent == [t |-> "absent", n |-> 0]

Null == [t |-> "null", n |-> 0]

Num(n) == [t |-> "num", n |-> n]

\* A custom field or form field: its name and its value.
CustomField(name, value) == [name |-> name, value |-> value]

\* metadata: a dict (items: key -> value) or a value of another type.
Metadata(items) == [isdict |-> TRUE, items |-> items]

NotADict == [isdict |-> FALSE, items |-> <<>>]

\* A URL: whether urlparse accepts it, and the name=value pairs of its query.
Url(valid, query) == [valid |-> valid, query |-> query]

NoUrl == Url(TRUE, <<>>)

Param(name, value) == [name |-> name, value |-> value]

\* An order with none of the optional members.
EmptyOrder(order_id) ==
    [id |-> order_id, custom_fields |-> <<>>, staff_notes |-> <<>>,
     customer_message |-> <<>>, metadata |-> Metadata(<<>>), form_fields |-> <<>>,
     external_source |-> NoUrl, refunded_amount |-> Absent, status_id |-> Absent,
     total_inc_tax |-> Num(10), total_ex_tax |-> Num(9),
     subtotal_inc_tax |-> Num(8), subtotal_ex_tax |-> Num(7)]

X1 == <<"X", "1">>

X2 == <<"X", "2">>

X3 == <<"X", "3">>

X4 == <<"X", "4">>

X5 == <<"X", "5">>

X6 == <<"X", "6">>

Gift == <<"g", "i", "f", "t">>

AffiliateCode ==
    <<"A", "f", "f", "i", "l", "i", "a", "t", "e", " ", "C", "o", "d", "e">>

GiftNote == <<"G", "i", "f", "t", " ", "n", "o", "t", "e">>

\* What get_order may return for an order id.
OrdersFor(order_id) ==
    {[EmptyOrder(order_id) EXCEPT !.custom_fields = cf, !.refunded_amount = ra] :
        cf \in {<<>>, <<CustomField(GiftNote, StrVal(Gift)),
                        CustomField(AffiliateCode, StrVal(X1))>>},
        ra \in {Absent, Num(5)}}

(***************************************************************************)
(* Characters and the regular expressions of TRACKING_PATTERNS             *)
(* (utils/attribution.py).                                                 *)
(***************************************************************************)
Uppers == <<"A", "B", "C", "D", "E", "F", "G", "H", "I", "J", "K", "L", "M",
            "N", "O", "P", "Q", "R", "S", "T", "U", "V", "W", "X", "Y", "Z">>

Lowers == <<"a", "b", "c", "d", "e", "f", "g", "h", "i", "j", "k", "l", "m",
            "n", "o", "p", "q", "r", "s", "t", "u", "v", "w", "x", "y", "z">>

Digits == {"0", "1", "2", "3", "4", "5", "6", "7", "8", "9"}

Whitespace == {" ", "\t", "\n"}

\* str.lower() and re.IGNORECASE, one character.
lower_char(c) ==
    IF \E i \in DOMAIN Uppers : Uppers[i] = c
    THEN Lowers[CHOOSE i \in DOMAIN Uppers : Uppers[i] = c]
    ELSE c

\* [A-Za-z0-9_-]
IsCodeChar(c) ==
    \/ \E i \in DOMAIN Uppers : Uppers[i] = c \/ Lowers[i] = c
    \/ c \in Digits \cup {"_", "-"}

\* The lower-case literal lit stands in s at position i, whatever the case of s.
MatchLit(s, i, lit) ==
    /\ i + Len(lit) - 1 <= Len(s)
    /\ \A k \in 1..Len(lit) : lower_char(s[i + k - 1]) = lit[k]

\* key in field_name, for a lower-case key.
Contains(s, lit) == \E i \in 1..(Len(s) + 1) : MatchLit(s, i, lit)

RECURSIVE LStrip(_)
LStrip(s) == IF s # <<>> /\ s[1] \in Whitespace THEN LStrip(Tail(s)) ELSE s

RECURSIVE RStrip(_)
RStrip(s) ==
    IF s # <<>> /\ s[Len(s)] \in Whitespace THEN RStrip(SubSeq(s, 1, Len(s) - 1)) ELSE s

\* str.strip()
Strip(s) == RStrip(LStrip(s))

\* A pattern  head [_-]? tail [=:]? \s* ([A-Za-z0-9_-]+)  (tail may be empty).
Pattern(head, tail) == [head |-> head, tail |-> tail]

TRACKING_PATTERNS ==
    <<Pattern(<<"a", "f", "f">>, <<"c", "o", "d", "e">>),
      Pattern(<<"r", "e", "f">>, <<>>),
      Pattern(<<"t", "r", "a", "c", "k", "i", "n", "g">>, <<"c", "o", "d", "e">>),
      Pattern(<<"u", "t", "m", "_", "s", "o", "u", "r", "c", "e">>, <<>>)>>

\* The position after the literal part of the pattern matched at i; 0: no match.
AfterLiteral(s, i, pat) ==
    LET j == i + Len(pat.head)
    IN  IF ~MatchLit(s, i, pat.head) THEN 0
        ELSE IF pat.tail = <<>> THEN j
        ELSE IF j <= Len(s) /\ s[j] \in {"_", "-"} /\ MatchLit(s, j + 1, pat.tail)
             THEN j + 1 + Len(pat.tail)
        ELSE IF MatchLit(s, j, pat.tail) THEN j + Len(pat.tail)
        ELSE 0

RECURSIVE SkipSpace(_, _)
SkipSpace(s, k) ==
    IF k <= Len(s) /\ s[k] \in Whitespace THEN SkipSpace(s, k + 1) ELSE k

RECURSIVE CodeRunEnd(_, _)
\* The position after the longest run of code characters that starts at k.
CodeRunEnd(s, k) ==
    IF k <= Len(s) /\ IsCodeChar(s[k]) THEN CodeRunEnd(s, k + 1) ELSE k

\* match.group(1) of the pattern matched at position i; <<>>: no match at i.
GroupAt(s, i, pat) ==
    LET k == AfterLiteral(s, i, pat)
        e == IF k <= Len(s) /\ s[k] \in {"=", ":"} THEN k + 1 ELSE k
        g == SkipSpace(s, e)
    IN  IF k = 0 THEN <<>> ELSE SubSeq(s, g, CodeRunEnd(s, g) - 1)

\* re.search(pattern, notes, re.IGNORECASE): group 1 of the leftmost match.
re_search(pat, s) ==
    IF \E i \in 1..Len(s) : GroupAt(s, i, pat) # <<>>
    THEN GroupAt(s, CHOOSE i \in 1..Len(s) :
                        /\ GroupAt(s, i, pat) # <<>>
                        /\ \A h \in 1..(i - 1) : GroupAt(s, h, pat) = <<>>, pat)
    ELSE <<>>

(***************************************************************************)
(* Tracking code of an order (utils/attribution.py).  A code is a string   *)
(* value or NullVal (None).                                                *)
(***************************************************************************)
NoCode == NullVal

\* Python truthiness of an optional string.
CodeTruthy(code) == code.t = "str" /\ code.s # <<>>

\* str(value)
py_str(value) == IF value.t = "null" THEN StrVal(<<"N", "o", "n", "e">>) ELSE value

CustomFieldKeys ==
    <<<<"t", "r", "a", "c", "k", "i", "n", "g">>,
      <<"a", "f", "f", "i", "l", "i", "a", "t", "e">>,
      <<"r", "e", "f">>,
      <<"a", "f", "f", "_", "c", "o", "d", "e">>>>

FormFieldKeys ==
    <<<<"t", "r", "a", "c", "k", "i", "n", "g">>,
      <<"a", "f", "f", "i", "l", "i", "a", "t", "e">>,
      <<"r", "e", "f">>>>

RECURSIVE extract_from_fields_at(_, _, _)
\* The loop over the fields: the first field whose name holds a key and whose
\* value is truthy.
extract_from_fields_at(fields, keys, i) ==
    IF i > Len(fields) THEN NoCode
    ELSE IF /\ \E k \in DOMAIN keys : Contains(fields[i].name, keys[k])
            /\ CodeTruthy(fields[i].value)
         THEN StrVal(Strip(py_str(fields[i].value).s))
         ELSE extract_from_fields_at(fields, keys, i + 1)

extract_from_custom_fields(order_data) ==
    extract_from_fields_at(order_data.custom_fields, CustomFieldKeys, 1)

RECURSIVE extract_from_notes_at(_, _)
extract_from_notes_at(notes, p) ==
    IF p > Len(TRACKING_PATTERNS) THEN NoCode
    ELSE IF re_search(TRACKING_PATTERNS[p], notes) # <<>>
         THEN StrVal(Strip(re_search(TRACKING_PATTERNS[p], notes)))
         ELSE extract_from_notes_at(notes, p + 1)

extract_from_notes(notes) ==
    IF notes = <<>> THEN NoCode ELSE extract_from_notes_at(notes, 1)

MetadataKeys == <<"tracking_code", "affiliate_code", "ref", "aff_code">>

RECURSIVE extract_from_metadata_at(_, _)
extract_from_metadata_at(metadata, k) ==
    IF k > Len(MetadataKeys) THEN NoCode
    ELSE IF MetadataKeys[k] \in DOMAIN metadata.items
         THEN StrVal(Strip(py_str(metadata.items[MetadataKeys[k]]).s))
         ELSE extract_from_metadata_at(metadata, k + 1)

extract_from_metadata(order_data) ==
    IF order_data.metadata.isdict
    THEN extract_from_metadata_at(order_data.metadata, 1)
    ELSE NoCode

extract_from_form_fields(order_data) ==
    extract_from_fields_at(order_data.form_fields, FormFieldKeys, 1)

\* parse_qs(query)[name]: the non-blank values given for the name, in order.
parse_qs(query, name) ==
    SelectSeq(query, LAMBDA pair : pair.name = name /\ pair.value # <<>>)

UrlParams == <<"ref", "aff", "tracking", "affiliate", "utm_source", "via">>

RECURSIVE extract_from_url_at(_, _)
extract_from_url_at(url, k) ==
    IF k > Len(UrlParams) THEN NoCode
    ELSE IF parse_qs(url.query, UrlParams[k]) # <<>>
         THEN StrVal(Strip(parse_qs(url.query, UrlParams[k])[1].value))
         ELSE extract_from_url_at(url, k + 1)

\* urlparse raising is caught and gives None.
extract_from_url(url) ==
    IF ~url.valid THEN NoCode ELSE extract_from_url_at(url, 1)

\* The notes are searched before the custom fields.
extract_tracking_code_notes_first(order_data) ==
    IF CodeTruthy(extract_from_notes(order_data.staff_notes))
    THEN extract_from_notes(order_data.staff_notes)
    ELSE IF CodeTruthy(extract_from_custom_fields(order_data))
    THEN extract_from_custom_fields(order_data)
    ELSE NoCode

\* Every probe is tested with "is not None" instead of truthiness.
extract_tracking_code_not_none(order_data) ==
    IF extract_from_custom_fields(order_data) # NoCode
    THEN extract_from_custom_fields(order_data)
    ELSE IF extract_from_notes(order_data.staff_notes) # NoCode
    THEN extract_from_notes(order_data.staff_notes)
    ELSE IF extract_from_notes(order_data.customer_message) # NoCode
    THEN extract_from_notes(order_data.customer_message)
    ELSE IF extract_from_metadata(order_data) # NoCode
    THEN extract_from_metadata(order_data)
    ELSE IF extract_from_form_fields(order_data) # NoCode
    THEN extract_from_form_fields(order_data)
    ELSE IF order_data.external_source # NoUrl
    THEN extract_from_url(order_data.external_source)
    ELSE NoCode

extract_tracking_code(order_data) ==
    IF CodeTruthy(extract_from_custom_fields(order_data))
    THEN extract_from_custom_fields(order_data)
    ELSE IF CodeTruthy(extract_from_notes(order_data.staff_notes))
    THEN extract_from_notes(order_data.staff_notes)
    ELSE IF CodeTruthy(extract_from_notes(order_data.customer_message))
    THEN extract_from_notes(order_data.customer_message)
    ELSE IF CodeTruthy(extract_from_metadata(order_data))
    THEN extract_from_metadata(order_data)
    ELSE IF CodeTruthy(extract_from_form_fields(order_data))
    THEN extract_from_form_fields(order_data)
    ELSE IF order_data.external_source # NoUrl
            /\ CodeTruthy(extract_from_url(order_data.external_source))
    THEN extract_from_url(order_data.external_source)
    ELSE NoCode

(***************************************************************************)
(* Conversion service (services/conversion_service.py).  A handler         *)
(* outcome is the exception it raises ("" for none), the result it         *)
(* returns, the collaborator calls it made and whether it uninstalled the  *)
(* store; the collaborators answer or fail nondeterministically.           *)
(***************************************************************************)
Returns(result, called, raised) ==
    [exc |-> "", result |-> result, called |-> called, raised |-> raised,
     uninstall |-> FALSE, writes |-> FALSE, products |-> {}]

Raises(exc, called, raised) ==
    [exc |-> exc, result |-> NoResult, called |-> called, raised |-> raised,
     uninstall |-> FALSE, writes |-> FALSE, products |-> {}]

\* The outcome o of a handler that committed the product table db.
Committed(o, db) == [o EXCEPT !.writes = TRUE, !.products = db]

\* v is None: the member is missing (dict.get without default) or null.
IsNone(v) == v.t \in {"absent", "null"}

\* float(v) of a number, or of the default 0 of dict.get(key, 0) when the
\* member is missing; float(None) raises TypeError.
py_float(v) ==
    IF v.t = "null" THEN [exc |-> "TypeError", value |-> 0]
    ELSE IF v.t = "absent" THEN [exc |-> "", value |-> 0]
    ELSE [exc |-> "", value |-> v.n]

get_order_total(order_data) ==
    IF ~IsNone(order_data.total_inc_tax) THEN py_float(order_data.total_inc_tax)
    ELSE IF ~IsNone(order_data.total_ex_tax) THEN py_float(order_data.total_ex_tax)
    ELSE IF ~IsNone(order_data.subtotal_inc_tax) THEN py_float(order_data.subtotal_inc_tax)
    ELSE py_float(order_data.subtotal_ex_tax)

get_order_subtotal(order_data) ==
    IF ~IsNone(order_data.subtotal_inc_tax) THEN py_float(order_data.subtotal_inc_tax)
    ELSE py_float(order_data.subtotal_ex_tax)

\* The status codes _build_conversion_data reports as a refund.
refund_conversion_statuses == {4}

\* The exception raised ("" for none) and the ConversionData built.
build_conversion_data(store, order_data, tracking_code) ==
    LET total_value == get_order_total(order_data)
        subtotal == get_order_subtotal(order_data)
        status_id == IF order_data.status_id.t = "absent" THEN Num(0)
                     ELSE order_data.status_id
        data == [tracking_code |-> tracking_code, brand_id |-> store.brand_id,
                 order_id |-> order_data.id, order_value |-> subtotal.value,
                 total_value |-> total_value.value,
                 conversion_type |->
                     IF status_id.t = "num" /\ status_id.n \in refund_conversion_statuses
                     THEN "refund" ELSE "purchase",
                 status_id |-> status_id]
    IN  IF total_value.exc # "" THEN [exc |-> total_value.exc, data |-> data]
        ELSE IF subtotal.exc # "" THEN [exc |-> subtotal.exc, data |-> data]
        ELSE [exc |-> "", data |-> data]

\* Attribution is looked up only after the brand check.
process_order_brand_first(store, order_data) ==
    IF store.brand_id = ""
    THEN {Returns([status |-> "not_connected", order_id |-> order_data.id,
                   tracking_code |-> extract_tracking_code(order_data),
                   message |-> "Store not connected to Affilync"], {}, {})}
    ELSE {Returns([status |-> "tracked", order_id |-> order_data.id,
                   tracking_code |-> extract_tracking_code(order_data),
                   conversion_id |-> "conv"], {"track_conversion"}, {})}

process_order(store, order_data) ==
    IF ~CodeTruthy(extract_tracking_code(order_data))
    THEN {Returns([status |-> "no_attribution", order_id |-> order_data.id,
                   message |-> "No tracking code found"], {}, {})}
    ELSE IF store.brand_id = ""
    THEN {Returns([status |-> "not_connected", order_id |-> order_data.id,
                   tracking_code |-> extract_tracking_code(order_data),
                   message |-> "Store not connected to Affilync"], {}, {})}
    ELSE IF build_conversion_data(store, order_data,
                                  extract_tracking_code(order_data)).exc # ""
    THEN {Raises(build_conversion_data(store, order_data,
                                       extract_tracking_code(order_data)).exc, {}, {})}
    ELSE {Returns([status |-> "tracked", order_id |-> order_data.id,
                   tracking_code |-> extract_tracking_code(order_data),
                   conversion_id |-> "conv"], {"track_conversion"}, {}),
          \* track_conversion raised: caught, returned as a result
          Returns([status |-> "error", order_id |-> order_data.id,
                   tracking_code |-> extract_tracking_code(order_data),
                   error |-> "track_conversion failed"],
                  {"track_conversion"}, {"track_conversion"})}

\* Only a negative amount is taken for "nothing refunded".
process_refund_negative_only(store, order_data) ==
    IF store.brand_id = ""
    THEN {Returns([status |-> "not_connected", order_id |-> order_data.id], {}, {})}
    ELSE IF py_float(order_data.refunded_amount).exc # ""
    THEN {Raises(py_float(order_data.refunded_amount).exc, {}, {})}
    ELSE IF py_float(order_data.refunded_amount).value < 0
    THEN {Returns([status |-> "no_refund", order_id |-> order_data.id], {}, {})}
    ELSE {Returns([status |-> "adjusted", order_id |-> order_data.id,
                   adjustment_id |-> "adj",
                   refund_amount |-> py_float(order_data.refunded_amount).value],
                  {"track_adjustment"}, {})}

\* The brand is looked at only when an adjustment is about to be sent.
process_refund_amount_first(store, order_data) ==
    IF py_float(order_data.refunded_amount).exc # ""
    THEN {Raises(py_float(order_data.refunded_amount).exc, {}, {})}
    ELSE IF py_float(order_data.refunded_amount).value <= 0
    THEN {Returns([status |-> "no_refund", order_id |-> order_data.id], {}, {})}
    ELSE {Returns([status |-> "not_connected", order_id |-> order_data.id], {}, {})}

process_refund(store, order_data) ==
    IF store.brand_id = ""
    THEN {Returns([status |-> "not_connected", order_id |-> order_data.id], {}, {})}
    ELSE IF py_float(order_data.refunded_amount).exc # ""
    THEN {Raises(py_float(order_data.refunded_amount).exc, {}, {})}
    ELSE IF py_float(order_data.refunded_amount).value <= 0
    THEN {Returns([status |-> "no_refund", order_id |-> order_data.id], {}, {})}
    ELSE {Returns([status |-> "adjusted", order_id |-> order_data.id,
                   adjustment_id |-> "adj",
                   refund_amount |-> py_float(order_data.refunded_amount).value],
                  {"track_adjustment"}, {}),
          \* track_adjustment raised: caught, returned as a result
          Returns([status |-> "error", order_id |-> order_data.id,
                   error |-> "track_adjustment failed"],
                  {"track_adjustment"}, {"track_adjustment"})}

(***************************************************************************)
(* Scope handlers and route_webhook (routes/webhooks.py).                  *)
(***************************************************************************)
\* An outcome of the code that follows get_order, with that call added.
AfterFetch(o) == [o EXCEPT !.called = @ \cup {"get_order"}]

\* The ways the fetch of the full order fails: decrypt_token or get_order
\* raises.  What decrypt_token does with the empty credential of an
\* uninstalled store is the library's business: it may raise or hand back a
\* useless token.
FetchFailures(store) ==
    (IF store.access_token = "" THEN {Raises("decrypt_token failed", {}, {})} ELSE {})
    \cup {Raises("get_order failed", {"get_order"}, {"get_order"})}

\* The order is fetched and forwarded as soon as it is created.
handle_order_created_forwarding(store, payload) ==
    FetchFailures(store) \cup
    UNION {{AfterFetch(o) : o \in process_order(store, order_data)} :
              order_data \in OrdersFor(payload.id)}

handle_order_created(store, payload) ==
    {Returns([status |-> "logged", order_id |-> payload.id], {}, {})}

handle_order_updated(store, payload) ==
    {Returns([status |-> "logged", order_id |-> payload.id], {}, {})}

\* Status 11 (Awaiting Fulfillment) still counted as a conversion.
conversion_statuses_with_11 == {2, 3, 10, 11}

conversion_statuses == {2, 3, 10}

refund_statuses == {4, 5, 6}

handle_order_status_updated(store, payload) ==
    IF payload.new_status_id \in conversion_statuses
    THEN FetchFailures(store) \cup
         UNION {{AfterFetch(o) : o \in process_order(store, order_data)} :
                    order_data \in OrdersFor(payload.id)}
    ELSE IF payload.new_status_id \in refund_statuses
    THEN FetchFailures(store) \cup
         UNION {{AfterFetch(o) : o \in process_refund(store, order_data)} :
                    order_data \in OrdersFor(payload.id)}
    ELSE {Returns([status |-> "logged", order_id |-> payload.id,
                   status_id |-> payload.new_status_id], {}, {})}

handle_app_uninstalled(store, payload) ==
    {[Returns([status |-> "uninstalled", store_hash |-> store.store_hash], {}, {})
         EXCEPT !.uninstall = TRUE]}

(***************************************************************************)
(* Products (models/product.py, services/product_sync.py).  db is the      *)
(* table bigcommerce_products; affilync_product_id "" is NULL.             *)
(***************************************************************************)
NewProduct(store_id, bc_product_id) ==
    [store_id |-> store_id, bc_product_id |-> bc_product_id,
     affilync_product_id |-> "", is_synced |-> FALSE, sync_error |-> ""]

\* Store idB was linked to a brand once: one of its products was synced then.
\* Store idA has synced its product 9.
InitialProducts ==
    {[NewProduct("idB", 8) EXCEPT !.affilync_product_id = "aff8", !.is_synced = TRUE],
     [NewProduct("idA", 9) EXCEPT !.affilync_product_id = "aff9", !.is_synced = TRUE]}

\* The rows the select of _get_product_by_bc_id matches.
get_product_by_bc_id(db, store_id, bc_product_id) ==
    {p \in db : p.store_id = store_id /\ p.bc_product_id = bc_product_id}

mark_synced(product, affilync_product_id) ==
    [product EXCEPT !.is_synced = TRUE, !.sync_error = "",
                    !.affilync_product_id = affilync_product_id]

mark_sync_error(product, error) ==
    [product EXCEPT !.is_synced = FALSE, !.sync_error = error]

\* The product is pushed whenever auto-sync is on, linked to a brand or not.
sync_product_from_webhook_unlinked(store, bc_product_id, db) ==
    LET found == get_product_by_bc_id(db, store.id, bc_product_id)
        existing == IF found = {} THEN NewProduct(store.id, bc_product_id)
                    ELSE CHOOSE p \in found : TRUE
    IN  IF Cardinality(found) > 1 THEN {Raises("MultipleResultsFound", {}, {})}
        ELSE IF ~store.auto_sync_products
        THEN {Committed(Returns(NoResult, {}, {}), db \cup {existing})}
        ELSE {Committed(Returns(NoResult, {"sync_product"}, {}),
                        (db \ {existing}) \cup {mark_synced(existing, "aff")})}

\* The outcomes of sync_product_from_webhook: the upsert is committed, then
\* the product is pushed to the affiliate backend when the store is linked.
sync_product_from_webhook(store, bc_product_id, db) ==
    LET found == get_product_by_bc_id(db, store.id, bc_product_id)
        existing == IF found = {} THEN NewProduct(store.id, bc_product_id)
                    ELSE CHOOSE p \in found : TRUE
    IN  IF Cardinality(found) > 1 THEN {Raises("MultipleResultsFound", {}, {})}
        ELSE IF ~(store.brand_id # "" /\ store.auto_sync_products)
        THEN {Committed(Returns(NoResult, {}, {}), db \cup {existing})}
        ELSE {Committed(Returns(NoResult, {"sync_product"}, {}),
                        (db \ {existing}) \cup {mark_synced(existing, "aff")}),
              \* sync_product raised: recorded on the product, raised again
              Committed(Raises("sync_product failed", {"sync_product"}, {"sync_product"}),
                        (db \ {existing})
                            \cup {mark_sync_error(existing, "sync_product failed")})}

\* The outcomes of delete_product_from_webhook; the result is its return value.
delete_product_from_webhook(store, bc_product_id, db) ==
    LET found == get_product_by_bc_id(db, store.id, bc_product_id)
        product == CHOOSE p \in found : TRUE
    IN  IF Cardinality(found) > 1 THEN {Raises("MultipleResultsFound", {}, {})}
        ELSE IF found = {} THEN {Returns([status |-> "False"], {}, {})}
        ELSE IF product.affilync_product_id # "" /\ store.brand_id # ""
        THEN {Committed(Returns([status |-> "True"], {"delete_product"}, {}),
                        db \ {product}),
              \* delete_product raised: logged and ignored
              Committed(Returns([status |-> "True"], {"delete_product"},
                                {"delete_product"}), db \ {product})}
        ELSE {Committed(Returns([status |-> "True"], {}, {}), db \ {product})}

\* The ways the fetch of the full product fails.
ProductFetchFailures(store) ==
    (IF store.access_token = "" THEN {Raises("decrypt_token failed", {}, {})} ELSE {})
    \cup {Raises("get_product failed", {"get_product"}, {"get_product"})}

\* The outcome o of the sync, after get_product, answered with the status.
Synced(o, status, bc_product_id) ==
    IF o.exc # "" THEN [o EXCEPT !.called = @ \cup {"get_product"}]
    ELSE [o EXCEPT !.called = @ \cup {"get_product"},
                   !.result = [status |-> status, bc_product_id |-> bc_product_id]]

handle_product_created(store, payload, db) ==
    IF store.auto_sync_products
    THEN ProductFetchFailures(store) \cup
         {Synced(o, "synced", payload.id) :
             o \in sync_product_from_webhook(store, payload.id, db)}
    ELSE {Returns([status |-> "logged", product_id |-> payload.id], {}, {})}

handle_product_updated(store, payload, db) ==
    IF store.auto_sync_products
    THEN ProductFetchFailures(store) \cup
         {Synced(o, "updated", payload.id) :
             o \in sync_product_from_webhook(store, payload.id, db)}
    ELSE {Returns([status |-> "logged", product_id |-> payload.id], {}, {})}

handle_product_deleted(store, payload, db) ==
    {IF o.exc # "" THEN o
     ELSE [o EXCEPT !.result =
              [status |-> IF o.result.status = "True" THEN "deleted" ELSE "not_found",
               bc_product_id |-> payload.id]] :
        o \in delete_product_from_webhook(store, payload.id, db)}

\* The scope has no entry in the dispatch table: KeyError.
route_webhook_strict(scope, store, payload, db) ==
    IF scope = "store/order/created" THEN handle_order_created(store, payload)
    ELSE IF scope = "store/order/updated" THEN handle_order_updated(store, payload)
    ELSE IF scope = "store/order/statusUpdated"
         THEN handle_order_status_updated(store, payload)
    ELSE IF scope = "store/product/created" THEN handle_product_created(store, payload, db)
    ELSE IF scope = "store/product/updated" THEN handle_product_updated(store, payload, db)
    ELSE IF scope = "store/product/deleted" THEN handle_product_deleted(store, payload, db)
    ELSE IF scope = "store/app/uninstalled" THEN handle_app_uninstalled(store, payload)
    ELSE {Raises("KeyError", {}, {})}

route_webhook(scope, store, payload, db) ==
    IF scope = "store/order/created" THEN handle_order_created(store, payload)
    ELSE IF scope = "store/order/updated" THEN handle_order_updated(store, payload)
    ELSE IF scope = "store/order/statusUpdated"
         THEN handle_order_status_updated(store, payload)
    ELSE IF scope = "store/product/created" THEN handle_product_created(store, payload, db)
    ELSE IF scope = "store/product/updated" THEN handle_product_updated(store, payload, db)
    ELSE IF scope = "store/product/deleted" THEN handle_product_deleted(store, payload, db)
    ELSE IF scope = "store/app/uninstalled" THEN handle_app_uninstalled(store, payload)
    ELSE {Returns([status |-> "unhandled", scope |-> scope], {}, {})}

\* StoreService.uninstall_store: the record stays, inactive and without credential.
uninstall_store(table, store_hash) ==
    [i \in DOMAIN table |->
        IF table[i].store_hash = store_hash
        THEN [table[i] EXCEPT !.is_active = FALSE, !.uninstalled_at = TRUE,
                              !.access_token = ""]
        ELSE table[i]]

(***************************************************************************)
(* Full product sync (services/product_sync.py, sync_all_products).  The   *)
(* list the commerce platform returned is a sequence of products; with     *)
(* each product comes what happens while it is stored and forwarded: the   *)
(* database and the affiliate backend answer or fail product by product.   *)
(***************************************************************************)
MaxBatch == 3

ProductFates == {"ok", "lookup_raises", "commit_raises", "sync_product_raises"}

FetchedProduct(id, fate) == [id |-> id, fate |-> fate]

FetchedProducts == {FetchedProduct(id, fate) : id \in {7, 8}, fate \in ProductFates}

\* get_all_products(...): the lists of at most MaxBatch products.
Batches == UNION {[1..n -> FetchedProducts] : n \in 0..MaxBatch}

\* stats as sync_all_products initialises it.
NewStats(total) ==
    [total |-> total, created |-> 0, updated |-> 0, synced_to_affilync |-> 0,
     errors |-> <<>>]

\* stats["errors"].append({"product_id": .., "error": ..})
AppendError(stats, product_id, error) ==
    [stats EXCEPT !.errors = Append(@, [product_id |-> product_id, error |-> error])]

\* One pass of the loop body over bc_product.  st holds stats, the product
\* table, the collaborator calls made so far and the number of products the
\* loop has taken up (attempted, kept for the properties only).
sync_one_product(store, bc_product, st) ==
    LET found == get_product_by_bc_id(st.db, store.id, bc_product.id)
        existing == IF found = {} THEN NewProduct(store.id, bc_product.id)
                    ELSE CHOOSE p \in found : TRUE
        counted == IF found = {} THEN [st.stats EXCEPT !.created = @ + 1]
                   ELSE [st.stats EXCEPT !.updated = @ + 1]
        began == [st EXCEPT !.attempted = @ + 1]
    IN  IF bc_product.fate = "lookup_raises"
        THEN [began EXCEPT !.stats = AppendError(st.stats, bc_product.id, "select failed")]
        ELSE IF Cardinality(found) > 1
        THEN [began EXCEPT !.stats =
                 AppendError(st.stats, bc_product.id, "MultipleResultsFound")]
        ELSE IF bc_product.fate = "commit_raises"
        THEN [began EXCEPT !.stats = AppendError(counted, bc_product.id, "commit failed")]
        ELSE IF store.brand_id = ""
        THEN [began EXCEPT !.stats = counted, !.db = st.db \cup {existing}]
        ELSE IF bc_product.fate = "sync_product_raises"
        THEN [began EXCEPT
                 !.stats = AppendError(counted, bc_product.id, "sync_product failed"),
                 !.db = (st.db \ {existing})
                           \cup {mark_sync_error(existing, "sync_product failed")},
                 !.called = @ \cup {"sync_product"},
                 !.raised = @ \cup {"sync_product"}]
        ELSE [began EXCEPT
                 !.stats = [counted EXCEPT !.synced_to_affilync = @ + 1],
                 !.db = (st.db \ {existing}) \cup {mark_synced(existing, "aff")},
                 !.called = @ \cup {"sync_product"}]

RECURSIVE sync_loop(_, _, _, _)
\* for bc_product in bc_products, from the i-th product on.
sync_loop(store, bc_products, i, st) ==
    IF i > Len(bc_products) THEN st
    ELSE sync_loop(store, bc_products, i + 1,
                   sync_one_product(store, bc_products[i], st))

\* The product fails while it is stored or forwarded.
ProductFails(store, bc_product) ==
    \/ bc_product.fate \in {"lookup_raises", "commit_raises"}
    \/ bc_product.fate = "sync_product_raises" /\ store.brand_id # ""

\* The outcome of sync_all_products that returns the stats st has gathered.
SyncReturns(st) ==
    [attempted |-> st.attempted] @@ Committed(Returns(st.stats, st.called, st.raised), st.db)

\* The ways the fetch of the product list fails, before the loop.
ProductListFailures(store) ==
    (IF store.access_token = "" THEN {Raises("decrypt_token failed", {}, {})} ELSE {})
    \cup {Raises("get_all_products failed", {"get_all_products"}, {"get_all_products"})}

\* The first failure of a product ends the loop.
sync_all_products_first_failure_ends(store, bc_products, db) ==
    LET failing == {i \in 1..Len(bc_products) : ProductFails(store, bc_products[i])}
        last == IF failing = {} THEN Len(bc_products)
                ELSE CHOOSE i \in failing : \A j \in failing : i <= j
    IN  ProductListFailures(store) \cup
        {SyncReturns(sync_loop(store, SubSeq(bc_products, 1, last), 1,
                               [stats |-> NewStats(Len(bc_products)), db |-> db,
                                attempted |-> 0, called |-> {"get_all_products"},
                                raised |-> {}]))}

\* The outcomes of sync_all_products when the platform returns bc_products.
sync_all_products(store, bc_products, db) ==
    ProductListFailures(store) \cup
    {SyncReturns(sync_loop(store, bc_products, 1,
                           [stats |-> NewStats(Len(bc_products)), db |-> db,
                            attempted |-> 0, called |-> {"get_all_products"},
                            raised |-> {}]))}

(***************************************************************************)
(* The embedded-app API (routes/api.py) and the authentication dependency  *)
(* (middleware/auth.py).  A bearer token is modelled by the key that       *)
(* signed it, whether it has expired and its aud claim ("" for none).      *)
(***************************************************************************)
AffilyncApiKey == "affilync_api_key"

JwtSecretKey == "jwt_secret_key"

ClientId == "client_id"

NoBearer == [present |-> FALSE, key |-> "", expired |-> FALSE, aud |-> ""]

Jwt(key, expired, aud) == [present |-> TRUE, key |-> key, expired |-> expired, aud |-> aud]

\* jwt.decode(token, key, algorithms, audience): the exception raised, "" for
\* none.  The signature is verified first, then exp, then aud; a token with an
\* aud claim decoded without audience is rejected as well.
jwt_decode(token, key, audience) ==
    IF token.key # key THEN "InvalidTokenError"
    ELSE IF token.expired THEN "ExpiredSignatureError"
    ELSE IF token.aud # audience THEN "InvalidTokenError"
    ELSE ""

\* The HTTPException require_auth raises, NoResponse when it returns an
\* authentication context.
require_auth(api_key, credentials) ==
    IF api_key # "" /\ api_key = AffilyncApiKey THEN NoResponse
    ELSE IF ~credentials.present
    THEN HTTPException(401, "Valid API key or JWT token required")
    ELSE IF jwt_decode(credentials, JwtSecretKey, "") = "" THEN NoResponse
    ELSE IF jwt_decode(credentials, JwtSecretKey, "") = "ExpiredSignatureError"
    THEN HTTPException(401, "Token has expired")
    ELSE IF jwt_decode(credentials, ClientSecret, ClientId) = "" THEN NoResponse
    ELSE HTTPException(401, "Valid API key or JWT token required")

\* The query of an API request without store_hash.
NoQuery == <<"?">>

\* get_current_store: the response that ends the request (422 of the
\* framework for the missing query parameter, 404), or the store.
get_current_store(store_hash, table) ==
    IF store_hash = NoQuery
    THEN [exc |-> HTTPException(422, "Field required"), store |-> NoStore]
    ELSE IF get_store_by_hash(table, store_hash) = NoStore
            \/ ~get_store_by_hash(table, store_hash).is_active
    THEN [exc |-> HTTPException(404, "Store not found or inactive"), store |-> NoStore]
    ELSE [exc |-> NoResponse, store |-> get_store_by_hash(table, store_hash)]

\* An outcome of an API endpoint: the answer, the product table it leaves
\* and the collaborator calls it made.
ApiOutcome(response, db, called) == [response |-> response, products |-> db, called |-> called]

\* ProductSyncService.get_store_products: the rows and their count.
get_store_products(db, store_id, synced_only) ==
    [products |-> {p \in db : p.store_id = store_id /\ (synced_only => p.is_synced)},
     total |-> Cardinality({p \in db : p.store_id = store_id
                                        /\ (synced_only => p.is_synced)})]

\* GET /api/products.  The headers of the request are no parameter of the
\* endpoint or of its dependencies.
api_get_products(request, table, db) ==
    LET current == get_current_store(request.store_hash, table)
    IN  IF current.exc # NoResponse THEN {ApiOutcome(current.exc, db, {})}
        ELSE {ApiOutcome(Ack("", "", get_store_products(db, current.store.id,
                                                         request.synced_only)),
                         db, {})}

\* POST /api/products/sync.
api_sync_all_products(request, table, db) ==
    LET current == get_current_store(request.store_hash, table)
    IN  IF current.exc # NoResponse THEN {ApiOutcome(current.exc, db, {})}
        ELSE IF current.store.brand_id = ""
        THEN {ApiOutcome(HTTPException(400, "Store must be connected to a brand first"),
                         db, {})}
        ELSE {IF o.exc # "" THEN ApiOutcome(Unhandled(o.exc), db, o.called)
              ELSE ApiOutcome(Ack("completed", "", o.result), o.products, o.called) :
                 o \in sync_all_products(current.store, request.batch, db)}

(***************************************************************************)
(* Requests to the commerce platform (services/bigcommerce_client.py).     *)
(* What the HTTP library hands back is a response (status code, body,      *)
(* rate-limit header), a timeout or another transport error.  A body is an *)
(* object with or without a title member, JSON that is no object (the v2   *)
(* API reports errors as an array), or no JSON at all.                     *)
(***************************************************************************)
ResponseBodies == {"object_with_title", "object", "array", "not_json"}

HttpResponse(status_code, body, reset_ms) ==
    [kind |-> "response", status_code |-> status_code, body |-> body,
     reset_ms |-> reset_ms]

TimeoutException == [kind |-> "timeout", status_code |-> 0, body |-> "not_json", reset_ms |-> ""]

RequestError == [kind |-> "request_error", status_code |-> 0, body |-> "not_json", reset_ms |-> ""]

\* response.json(): the exception raised ("" for none).
response_json(body) == IF body = "not_json" THEN "JSONDecodeError" ELSE ""

\* What _request raises.
BigCommerceAPIError(message, status_code) ==
    [exc |-> "BigCommerceAPIError", message |-> message, status_code |-> status_code,
     value |-> "none"]

\* Another exception leaves _request.
RequestRaises(exc) == [exc |-> exc, message |-> <<>>, status_code |-> 0, value |-> "none"]

RequestReturns(value) == [exc |-> "", message |-> <<>>, status_code |-> 0, value |-> value]

\* _request, given whether the client was opened and what the HTTP library
\* answers.  error_data is what response.json() gave, or {} when it raised.
request(opened, answer) ==
    IF ~opened THEN RequestRaises("RuntimeError")
    ELSE IF answer.kind = "timeout" THEN BigCommerceAPIError(<<"Request timeout">>, 504)
    ELSE IF answer.kind = "request_error" THEN BigCommerceAPIError(<<"Request failed">>, 503)
    ELSE IF answer.status_code = 429
    THEN BigCommerceAPIError(<<"Rate limited. Retry after",
                               IF answer.reset_ms = "" THEN "1000" ELSE answer.reset_ms>>,
                             429)
    ELSE IF answer.status_code >= 400
    THEN IF response_json(answer.body) = "" /\ answer.body = "array"
         THEN RequestRaises("AttributeError")
         ELSE BigCommerceAPIError(IF answer.body = "object_with_title" THEN <<"title">>
                                  ELSE <<"API error">>, answer.status_code)
    ELSE IF answer.status_code = 204 THEN RequestReturns("{}")
    ELSE IF response_json(answer.body) # "" THEN RequestRaises(response_json(answer.body))
    ELSE RequestReturns(answer.body)

(***************************************************************************)
(* State.                                                                *)
(*   traffic  the inputs the platform delivers in this behaviour           *)
(*   stores   table bigcommerce_stores                                     *)
(*   products table bigcommerce_products                                   *)
(*   ledger   table bigcommerce_webhook_logs, a set of rows; a row's id    *)
(*            (a fresh UUID in the code) is the request that inserted it   *)
(*   req      one execution of handle_bigcommerce_webhook per request:     *)
(*            its position, its local variables and its answer             *)
(*   call     one application of a function of the service layer to        *)
(*            arguments given directly, outside any request                *)
(* The installation (routes/oauth.py):                                     *)
(*   redis_states     the keys oauth_state:bc:<state> Redis holds          *)
(*   fallback_states  the keys of the process dictionary _fallback_states  *)
(*   issued           the state tokens auth_start has generated so far     *)
(*   flows            one execution of auth_start with a code, or of       *)
(*                    auth_callback, per flow: its position, its locals    *)
(*                    and its answer                                       *)
(*   hooks            the webhooks the platform holds for each store hash  *)
(* The rate limiter (middleware/rate_limit.py):                            *)
(*   clock              time.time(), in seconds                            *)
(*   fallback_requests  the process dictionary _fallback_requests          *)
(*   redis_counts       whether there is a Redis, and the keys             *)
(*                      rate_limit:bc:<ip> it holds                        *)
(*   verdicts           what _check_memory_limit decided for each request  *)
(*                      it checked so far, and the last answer of dispatch *)
(***************************************************************************)
VARIABLES traffic, stores, products, ledger, req, call,
          redis_states, fallback_states, issued, flows, hooks,
          clock, fallback_requests, redis_counts, verdicts

oauthVars == <<redis_states, fallback_states, issued, flows, hooks>>

limiterVars == <<clock, fallback_requests, redis_counts, verdicts>>

vars == <<traffic, stores, products, ledger, req, call, oauthVars, limiterVars>>

\* The OAuth requests of one behaviour that carry a code.
MaxFlows == 2

\* The state tokens auth_start generates in one behaviour.
MaxStates == 1

\* The webhooks a run of register_all_webhooks creates before it fails.
MaxPartial == 1

Flows == 1..MaxFlows

\* A missing or empty state parameter.
NoState == ""

\* The locals of an OAuth request that has not arrived: the route, the state
\* and store hash it presents, whether _validate_state accepted the state,
\* whether exchange_token and install_store were reached, the token the
\* platform granted, the record install_store found, the webhooks the store
\* had and the ones register_all_webhooks created, and the answer.
IdleFlow ==
    [pc |-> "idle", route |-> "", state |-> NoState, store_hash |-> <<>>,
     accepted |-> FALSE, exchanged |-> FALSE, installed |-> FALSE,
     access_token |-> "", existing |-> NoStore, had |-> <<>>, created |-> <<>>,
     registered |-> "", code |-> 0]

\* The store hashes OAuth requests name: a, installed, and c, not yet.
InstallHashes == {<<"a">>, <<"c">>}

\* The scopes every store needs (register_all_webhooks).
required_scopes ==
    <<"store/order/created", "store/order/updated", "store/order/statusUpdated",
      "store/product/created", "store/product/updated", "store/product/deleted",
      "store/app/uninstalled">>

\* Nothing is being installed: store a has its webhooks, store c has none.
NoInstall ==
    /\ redis_states = {}
    /\ fallback_states = {}
    /\ issued = {}
    /\ flows = [f \in Flows |-> IdleFlow]
    /\ hooks = [h \in InstallHashes |-> IF h = <<"a">> THEN required_scopes ELSE <<>>]

ClientIPs == {"ip1", "ip2"}

\* No key rate_limit:bc:<ip>.
NoCount == [n |-> 0, expires |-> 0]

\* No request has been answered.
NoVerdict == [ip |-> "", exempt |-> FALSE, via |-> "none", limited |-> FALSE, code |-> 0]

\* No request has passed the rate limiter, and there is no Redis.
NoTraffic ==
    /\ clock = 0
    /\ fallback_requests = [ip \in ClientIPs |-> <<>>]
    /\ redis_counts = [up |-> FALSE, keys |-> [ip \in ClientIPs |-> NoCount]]
    /\ verdicts = [memory |-> <<>>, last |-> NoVerdict]

\* No function is applied outside the requests.
NoCall == [fn |-> "none", arg |-> NoResult, done |-> TRUE, out |-> NoResult]

\* No row: what scalar_one_or_none returns when nothing matches.
NoLog ==
    [id |-> 0, store_id |-> "", scope |-> "", hash |-> payload_hash(MalformedBody),
     status |-> "", result |-> NoResult, error |-> "", processed_at |-> FALSE]

IdleReq ==
    [pc |-> "idle", body |-> MalformedBody, sig |-> NoHeader, parsed |-> FALSE,
     store |-> NoStore, duplicate |-> NoLog, log |-> 0, routed |-> FALSE,
     exc |-> "", result |-> NoResult, called |-> {}, raised |-> {},
     response |-> NoResponse]

Done(r, response) == [r EXCEPT !.pc = "done", !.response = response]

\* BigCommerceWebhookLog(...): the status column defaults to "received";
\* processed_at is NULL (FALSE) until the row is marked.
NewLog(id, store_id, scope, hash) ==
    [id |-> id, store_id |-> store_id, scope |-> scope, hash |-> hash,
     status |-> "received", result |-> NoResult, error |-> "", processed_at |-> FALSE]

mark_processed(log, result) ==
    [log EXCEPT !.status = "success", !.result = result, !.processed_at = TRUE]

\* The error text is not stored.
mark_failed_no_text(log, error) == [log EXCEPT !.status = "failed", !.processed_at = TRUE]

mark_failed(log, error) ==
    [log EXCEPT !.status = "failed", !.error = error, !.processed_at = TRUE]

Row(table, id) == CHOOSE row \in table : row.id = id

Update(table, row) == (table \ {Row(table, row.id)}) \cup {row}

\* The rows the select of log_webhook matches.
Matching(table, store_id, hash) ==
    {row \in table : row.hash = hash /\ row.store_id = store_id}

Init ==
    /\ traffic \in Scenarios
    /\ stores = InitialStores
    /\ products = InitialProducts
    /\ ledger = {}
    /\ req = [r \in Requests |-> IdleReq]
    /\ call = NoCall
    /\ NoInstall
    /\ NoTraffic

\* The request up to the store lookup: middleware, signature dependency,
\* json.loads, producer, get_store_by_hash.
Entry(in, table) ==
    LET base == [IdleReq EXCEPT !.body = in.body, !.sig = in.sig]
        parsed == json_loads(in.body)
        payload == parsed.value
        producer == get_producer(payload)
        store == get_store_by_hash(table, LastSegment(producer.s))
    IN  IF WebhookHMACMiddleware_dispatch(in.sig, in.body) # NoResponse
        THEN Done(base, WebhookHMACMiddleware_dispatch(in.sig, in.body))
        ELSE IF verify_webhook_signature(in.sig, in.body) # NoResponse
        THEN Done(base, verify_webhook_signature(in.sig, in.body))
        ELSE IF parsed.exc = "JSONDecodeError"
        THEN Done(base, HTTPException(400, "Invalid JSON payload"))
        ELSE IF parsed.exc # ""
        THEN Done(base, Unhandled(parsed.exc))
        ELSE IF ~payload.isobj
        THEN Done([base EXCEPT !.parsed = TRUE], Unhandled("AttributeError"))
        ELSE IF ProducerTruthy(producer) /\ producer.t # "str"
        THEN Done([base EXCEPT !.parsed = TRUE], Unhandled("AttributeError"))
        ELSE IF ~ProducerTruthy(producer) \/ LastSegment(producer.s) = <<>>
        THEN Done([base EXCEPT !.parsed = TRUE],
                  Ack("ignored", "missing_store_hash", NoResult))
        ELSE IF store = NoStore
        THEN Done([base EXCEPT !.parsed = TRUE],
                  Ack("ignored", "store_not_found", NoResult))
        ELSE [base EXCEPT !.parsed = TRUE, !.store = store, !.pc = "log_select"]

\* A delivery arrives and runs to its first ledger access.
Receive(r) ==
    /\ req[r].pc = "idle"
    /\ r <= traffic.n
    /\ \A q \in Requests : q < r => req[q].pc # "idle"
    /\ \E in \in traffic.inputs : req' = [req EXCEPT ![r] = Entry(in, stores)]
    /\ UNCHANGED <<traffic, stores, products, ledger, call, oauthVars, limiterVars>>

\* log_webhook, the select (scalar_one_or_none): more than one matching row
\* raises, an already processed row ends the request as a duplicate.
LogSelect(r) ==
    LET me == req[r]
        m == Matching(ledger, me.store.id, payload_hash(me.body))
        duplicate == CHOOSE row \in m : TRUE
    IN  /\ me.pc = "log_select"
        /\ req' = [req EXCEPT ![r] =
              IF Cardinality(m) > 1
              THEN Done(me, Unhandled("MultipleResultsFound"))
              ELSE IF m # {} /\ duplicate.status = "processed"
              THEN Done([me EXCEPT !.duplicate = duplicate, !.log = duplicate.id],
                        Ack("duplicate", "already_processed", NoResult))
              ELSE [me EXCEPT !.pc = "log_insert",
                              !.duplicate = IF m = {} THEN NoLog ELSE duplicate]]
        /\ UNCHANGED <<traffic, stores, products, ledger, call, oauthVars, limiterVars>>

\* The row the select found is taken over instead of a new one.
LogInsert_reuse(r) ==
    LET me == req[r]
    IN  /\ me.pc = "log_insert"
        /\ IF me.duplicate = NoLog
           THEN /\ ledger' = ledger \cup {NewLog(r, me.store.id, get_scope(me.body),
                                                 payload_hash(me.body))}
                /\ req' = [req EXCEPT ![r] = [me EXCEPT !.pc = "route", !.log = r]]
           ELSE /\ ledger' = ledger
                /\ req' = [req EXCEPT ![r] =
                      [me EXCEPT !.pc = "route", !.log = me.duplicate.id]]
        /\ UNCHANGED <<traffic, stores, products, call, oauthVars, limiterVars>>

\* log_webhook, db.add and commit: a new row, whatever the select found.
LogInsert(r) ==
    LET me == req[r]
    IN  /\ me.pc = "log_insert"
        /\ ledger' = ledger \cup {NewLog(r, me.store.id, get_scope(me.body),
                                         payload_hash(me.body))}
        /\ req' = [req EXCEPT ![r] = [me EXCEPT !.pc = "route", !.log = r]]
        /\ UNCHANGED <<traffic, stores, products, call, oauthVars, limiterVars>>

\* route_webhook runs the scope handler with its collaborator calls; the
\* outcome is written to the row, committed, and the caller is answered.
Route(r) ==
    LET me == req[r]
    IN  /\ me.pc = "route"
        /\ \E o \in route_webhook(get_scope(me.body), me.store, me.body, products) :
              LET ran == [me EXCEPT !.routed = TRUE, !.exc = o.exc,
                                    !.result = o.result, !.called = o.called,
                                    !.raised = o.raised]
              IN  /\ stores' = IF o.uninstall
                               THEN uninstall_store(stores, me.store.store_hash)
                               ELSE stores
                  /\ products' = IF o.writes THEN o.products ELSE products
                  /\ IF o.exc = ""
                     THEN /\ ledger' = Update(ledger, mark_processed(Row(ledger, me.log), o.result))
                          /\ req' = [req EXCEPT ![r] =
                                Done(ran, Ack("processed", "", o.result))]
                     ELSE /\ ledger' = Update(ledger, mark_failed(Row(ledger, me.log), o.exc))
                          /\ req' = [req EXCEPT ![r] =
                                Done(ran, Ack("error", o.exc, NoResult))]
        /\ UNCHANGED <<traffic, call, oauthVars, limiterVars>>

Next ==
    \E r \in Requests :
        \/ Receive(r)
        \/ LogSelect(r)
        \/ LogInsert(r)
        \/ Route(r)

Spec == Init /\ [][Next]_vars

\* The requests under the assumption that every collaborator call returns or
\* raises: a request that has started goes on to its next step. Nothing
\* obliges the platform to deliver.
LiveSpec ==
    /\ Spec
    /\ \A r \in Requests :
          WF_vars(LogSelect(r)) /\ WF_vars(LogInsert(r)) /\ WF_vars(Route(r))

(***************************************************************************)
(* The functions of the service layer applied to arguments of their own:   *)
(* Init draws the function and its arguments, the action applies it.       *)
(***************************************************************************)
RefX2 == <<"r", "e", "f", "=", "X", "2">>

AffCodeX3 == <<"A", "F", "F", "_", "C", "O", "D", "E", ":", " ", "X", "3">>

Referral == <<"R", "e", "f", "e", "r", "r", "a", "l">>

AffCode == <<"a", "f", "f", "_", "c", "o", "d", "e">>

\* Orders that carry a code, a blank or nothing in each of the six locations.
AttributionOrders ==
    {[EmptyOrder(7) EXCEPT !.custom_fields = cf, !.staff_notes = sn,
                           !.customer_message = cm, !.metadata = md,
                           !.form_fields = ff, !.external_source = es] :
        cf \in {<<>>,
                <<CustomField(GiftNote, StrVal(Gift))>>,
                <<CustomField(GiftNote, StrVal(Gift)),
                  CustomField(AffiliateCode, StrVal(X1))>>,
                <<CustomField(AffiliateCode, StrVal(<<" ">>))>>},
        sn \in {<<>>, GiftNote, RefX2},
        cm \in {<<>>, GiftNote, AffCodeX3},
        md \in {Metadata(<<>>), NotADict,
                Metadata("ref" :> StrVal(X4)),
                Metadata("aff_code" :> NullVal),
                Metadata("tracking_code" :> StrVal(<<>>) @@ "ref" :> StrVal(X4))},
        ff \in {<<>>,
                <<CustomField(AffCode, StrVal(X5))>>,
                <<CustomField(Referral, StrVal(X5))>>},
        es \in {NoUrl,
                Url(TRUE, <<Param("via", X6)>>),
                Url(TRUE, <<Param("ref", <<>>), Param("aff", X6)>>),
                Url(FALSE, <<Param("ref", X6)>>)}}

\* Orders with each of the four totals missing, null, zero or a number.
TotalOrders ==
    {[EmptyOrder(7) EXCEPT !.total_inc_tax = a, !.total_ex_tax = b,
                           !.subtotal_inc_tax = c, !.subtotal_ex_tax = d] :
        a \in {Absent, Null, Num(0), Num(10)}, b \in {Absent, Null, Num(9)},
        c \in {Absent, Null, Num(8)}, d \in {Absent, Null, Num(7)}}

\* Orders with each refunded amount and each status code of the platform.
StatusIds == {Absent, Null} \cup {Num(n) : n \in 0..12}

RefundOrders ==
    {[EmptyOrder(7) EXCEPT !.refunded_amount = ra, !.status_id = st,
                           !.custom_fields = cf] :
        ra \in {Absent, Null, Num(0), Num(-5), Num(5)},
        st \in {Absent, Num(4), Num(5)},
        cf \in {<<>>, <<CustomField(AffiliateCode, StrVal(X1))>>}}

StatusOrders ==
    {[EmptyOrder(7) EXCEPT !.status_id = st, !.subtotal_ex_tax = d,
                           !.subtotal_inc_tax = c] :
        st \in StatusIds, c \in {Absent, Num(8)}, d \in {Null, Num(7)}}

\* The same orders, attributed by a custom field.
AttributedStatusOrders ==
    {[o EXCEPT !.custom_fields = <<CustomField(AffiliateCode, StrVal(X1))>>] :
        o \in StatusOrders}

\* A linked store, a store without brand, and a store after its uninstall.
CallStores ==
    {InitialStores["idA"], InitialStores["idB"],
     uninstall_store(InitialStores, <<"a">>)["idA"]}

\* statusUpdated events with every status code, and with none.
StatusEvents ==
    {Event(<<"a">>, "store/order/statusUpdated", 7, st) : st \in {NoneId} \cup 0..12}

\* Orders with one or two form fields: names that hold a key of the probes in
\* either case or none, values that are a code, padded, blank, empty or null.
FieldNames ==
    {AffCode, Referral, GiftNote, AffiliateCode,
     <<"A", "F", "F", "_", "C", "O", "D", "E">>,
     <<"T", "r", "a", "c", "k", "i", "n", "g">>}

FieldValues ==
    {StrVal(X5), StrVal(<<" ", "X", "5", " ">>), StrVal(<<" ">>), StrVal(<<>>), NullVal}

FormFieldOrders ==
    {[EmptyOrder(7) EXCEPT !.form_fields = <<CustomField(n, v)>>] :
        n \in FieldNames, v \in FieldValues}
    \cup {[EmptyOrder(7) EXCEPT !.form_fields =
              <<CustomField(n, StrVal(<<>>)), CustomField(AffCode, StrVal(X5))>>] :
            n \in FieldNames}

\* The credentials a caller of the API may send.
ApiKeys == {"", AffilyncApiKey, "wrong_key"}

BearerTokens ==
    {NoBearer,
     Jwt(JwtSecretKey, FALSE, ""), Jwt(JwtSecretKey, TRUE, ""),
     Jwt(JwtSecretKey, FALSE, ClientId),
     Jwt(ClientSecret, FALSE, ClientId), Jwt(ClientSecret, TRUE, ClientId),
     Jwt(ClientSecret, FALSE, "other_client"), Jwt("other_secret", FALSE, "")}

StoreHashes == {NoQuery, <<"a">>, <<"b">>, <<"z">>}

\* The requests to the two product endpoints; the full sync of a request
\* meets a product list of at most one product.
ApiRequests ==
    {q \in [api_key : ApiKeys, credentials : BearerTokens, store_hash : StoreHashes,
            synced_only : BOOLEAN, batch : {x \in Batches : Len(x) <= 1}] :
        q.synced_only => q.batch = <<>>}

\* The store table an API request meets: as installed, or with store a
\* uninstalled.
StoreTables == {InitialStores, uninstall_store(InitialStores, <<"a">>)}

\* What the HTTP library answers to a request to the commerce platform.
HttpAnswers ==
    {HttpResponse(sc, b, ms) :
        sc \in {200, 204, 301, 400, 404, 422, 429, 500, 503},
        b \in ResponseBodies, ms \in {"", "1500"}}
    \cup {TimeoutException, RequestError}

Pending(fn, arg) == [fn |-> fn, arg |-> arg, done |-> FALSE, out |-> NoResult]

Calls ==
    {Pending("extract_tracking_code", [order |-> o]) :
        o \in AttributionOrders \cup FormFieldOrders}
    \cup {Pending("get_order_total", [order |-> o]) : o \in TotalOrders}
    \cup {Pending("verify_webhook_hmac", [payload |-> i.body, signature |-> i.sig]) :
             i \in {j \in Inputs : j.body \in {StatusA10, CreatedA, MalformedBody}}}
    \cup {Pending("build_conversion_data", [store |-> st, order |-> o]) :
             st \in CallStores, o \in StatusOrders}
    \cup {Pending("process_order", [store |-> st, order |-> o]) :
             st \in CallStores,
             o \in {a \in AttributionOrders : a.staff_notes = <<>> /\ a.metadata.isdict}
                   \cup AttributedStatusOrders \cup RefundOrders}
    \cup {Pending("process_refund", [store |-> st, order |-> o]) :
             st \in CallStores, o \in RefundOrders}
    \cup {Pending("handle_order_status_updated", [store |-> st, payload |-> e]) :
             st \in CallStores, e \in StatusEvents}
    \cup {Pending("extract_from_form_fields", [order |-> o]) : o \in FormFieldOrders}
    \cup {Pending("sync_all_products", [store |-> st, batch |-> b]) :
             st \in CallStores, b \in Batches}
    \cup {Pending("api_get_products", [request |-> q]) :
             q \in {x \in ApiRequests : x.batch = <<>>}}
    \cup {Pending("api_sync_all_products", [request |-> q]) :
             q \in {x \in ApiRequests : ~x.synced_only}}
    \cup {Pending("request", [opened |-> op, answer |-> a]) :
             op \in BOOLEAN, a \in HttpAnswers}

ApiCalls == {"api_get_products", "api_sync_all_products"}

CallInit ==
    /\ traffic = [inputs |-> {}, n |-> 0]
    /\ call \in Calls
    /\ stores \in IF call.fn \in ApiCalls THEN StoreTables ELSE {InitialStores}
    /\ products = InitialProducts
    /\ ledger = {}
    /\ req = [r \in Requests |-> IdleReq]
    /\ NoInstall
    /\ NoTraffic

Finished(out) == [call EXCEPT !.done = TRUE, !.out = out]

Apply(fn) ==
    /\ call.fn = fn /\ ~call.done
    /\ UNCHANGED <<traffic, stores, products, ledger, req, oauthVars, limiterVars>>

ApplyExtractTrackingCode ==
    /\ Apply("extract_tracking_code")
    /\ call' = Finished(extract_tracking_code(call.arg.order))

ApplyGetOrderTotal ==
    /\ Apply("get_order_total")
    /\ call' = Finished(get_order_total(call.arg.order))

ApplyVerifyWebhookHmac ==
    /\ Apply("verify_webhook_hmac")
    /\ call' = Finished(verify_webhook_hmac(call.arg.payload, call.arg.signature))

ApplyBuildConversionData ==
    /\ Apply("build_conversion_data")
    /\ call' = Finished(build_conversion_data(call.arg.store, call.arg.order, StrVal(X1)))

ApplyProcessOrder ==
    /\ Apply("process_order")
    /\ \E o \in process_order(call.arg.store, call.arg.order) : call' = Finished(o)

ApplyProcessRefund ==
    /\ Apply("process_refund")
    /\ \E o \in process_refund(call.arg.store, call.arg.order) : call' = Finished(o)

ApplyHandleOrderStatusUpdated ==
    /\ Apply("handle_order_status_updated")
    /\ \E o \in handle_order_status_updated(call.arg.store, call.arg.payload) :
          call' = Finished(o)

ApplyExtractFromFormFields ==
    /\ Apply("extract_from_form_fields")
    /\ call' = Finished(extract_from_form_fields(call.arg.order))

ApplyRequest ==
    /\ Apply("request")
    /\ call' = Finished(request(call.arg.opened, call.arg.answer))

\* The service and the endpoints write the product table.
ApplySyncAllProducts ==
    /\ call.fn = "sync_all_products" /\ ~call.done
    /\ \E o \in sync_all_products(call.arg.store, call.arg.batch, products) :
          /\ call' = Finished(o)
          /\ products' = IF o.writes THEN o.products ELSE products
    /\ UNCHANGED <<traffic, stores, ledger, req, oauthVars, limiterVars>>

ApplyApiGetProducts ==
    /\ call.fn = "api_get_products" /\ ~call.done
    /\ \E o \in api_get_products(call.arg.request, stores, products) :
          /\ call' = Finished(o)
          /\ products' = o.products
    /\ UNCHANGED <<traffic, stores, ledger, req, oauthVars, limiterVars>>

ApplyApiSyncAllProducts ==
    /\ call.fn = "api_sync_all_products" /\ ~call.done
    /\ \E o \in api_sync_all_products(call.arg.request, stores, products) :
          /\ call' = Finished(o)
          /\ products' = o.products
    /\ UNCHANGED <<traffic, stores, ledger, req, oauthVars, limiterVars>>

CallNext ==
    \/ ApplyExtractTrackingCode
    \/ ApplyGetOrderTotal
    \/ ApplyVerifyWebhookHmac
    \/ ApplyBuildConversionData
    \/ ApplyProcessOrder
    \/ ApplyProcessRefund
    \/ ApplyHandleOrderStatusUpdated
    \/ ApplyExtractFromFormFields
    \/ ApplyRequest
    \/ ApplySyncAllProducts
    \/ ApplyApiGetProducts
    \/ ApplyApiSyncAllProducts

CallSpec == CallInit /\ [][CallNext]_vars

(***************************************************************************)
(* Installation: the OAuth routes (routes/oauth.py), install_store         *)
(* (services/store_service.py) and register_all_webhooks                   *)
(* (services/bigcommerce_client.py).  Every await of the code ends a step: *)
(* other requests run between two steps of a flow.                         *)
(***************************************************************************)
webhookVars == <<traffic, products, ledger, req, call>>

\* secrets.token_urlsafe(32): a token nobody has seen before, the n-th of
\* the behaviour.
token_urlsafe(n) == <<"s1", "s2", "s3", "s4", "s5", "s6">>[n]

\* A state token auth_start never generated.
ForgedState == "forged"

\* The access token the platform grants in the exchange of flow f.
Granted(f) == <<"tok1", "tok2", "tok3", "tok4", "tok5", "tok6">>[f]

\* The id of the record flow f inserts.
NewStoreId(f) == <<"idF1", "idF2", "idF3", "idF4", "idF5", "idF6">>[f]

encrypt_token(token) ==
    CASE token = "tok1" -> "enc_tok1"
      [] token = "tok2" -> "enc_tok2"
      [] token = "tok3" -> "enc_tok3"
      [] token = "tok4" -> "enc_tok4"
      [] token = "tok5" -> "enc_tok5"
      [] OTHER -> "enc_tok6"

\* _store_state: setex in Redis; without Redis (up is FALSE: no client, or
\* setex raises) the entries older than ten minutes are purged from the
\* dictionary and the state is added to it.
store_state(state, up, expired) ==
    IF up
    THEN [redis |-> redis_states \cup {state}, fallback |-> fallback_states]
    ELSE [redis |-> redis_states,
          fallback |-> (fallback_states \ expired) \cup {state}]

\* _validate_state, the test and pop on _fallback_states.
validate_fallback(state) ==
    [ok |-> state \in fallback_states, fallback |-> fallback_states \ {state}]

\* HTTPException(400, "Invalid OAuth state parameter")
InvalidState(flow) == [flow EXCEPT !.pc = "done", !.code = 400]

\* auth_callback up to the exchange: the store hash is the last segment of
\* the context.
auth_callback_entry(flow) ==
    IF flow.store_hash = <<>>
    THEN [flow EXCEPT !.pc = "done", !.code = 400]
    ELSE [flow EXCEPT !.pc = "exchange"]

\* Flow f arrives next.
Arriving(f) ==
    /\ flows[f].pc = "idle"
    /\ \A g \in Flows : g < f => flows[g].pc # "idle"

\* GET /oauth/auth without code: a state is generated, stored, and the
\* merchant is redirected to the platform.
AuthStart ==
    LET state == token_urlsafe(Cardinality(issued) + 1)
    IN  /\ Cardinality(issued) < MaxStates
        /\ \E up \in BOOLEAN, expired \in SUBSET fallback_states :
              /\ up => expired = {}
              /\ redis_states' = store_state(state, up, expired).redis
              /\ fallback_states' = store_state(state, up, expired).fallback
        /\ issued' = issued \cup {state}
        /\ UNCHANGED <<flows, hooks, stores, webhookVars, limiterVars>>

\* GET /oauth/auth with a code: the state is validated if there is one.  With
\* Redis (up) the key is read here and deleted in a later step.
AuthStartCode(f) ==
    /\ Arriving(f)
    /\ \E state \in issued \cup {ForgedState, NoState},
          h \in InstallHashes, up \in BOOLEAN :
          LET me == [IdleFlow EXCEPT !.route = "auth", !.state = state,
                                     !.store_hash = h]
              v == validate_fallback(state)
          IN  IF state = NoState
              THEN /\ up
                   /\ flows' = [flows EXCEPT ![f] = auth_callback_entry(me)]
                   /\ UNCHANGED <<redis_states, fallback_states>>
              ELSE IF up
              THEN /\ flows' = [flows EXCEPT ![f] =
                          IF state \in redis_states
                          THEN [me EXCEPT !.pc = "delete"]
                          ELSE InvalidState(me)]
                   /\ UNCHANGED <<redis_states, fallback_states>>
              ELSE /\ fallback_states' = v.fallback
                   /\ flows' = [flows EXCEPT ![f] =
                          IF v.ok
                          THEN auth_callback_entry([me EXCEPT !.accepted = TRUE])
                          ELSE InvalidState(me)]
                   /\ UNCHANGED redis_states
    /\ UNCHANGED <<issued, hooks, stores, webhookVars, limiterVars>>

\* _validate_state after redis.get found the key: redis.delete, then True;
\* if the delete raises, the dictionary decides.
RedisDelete(f) ==
    LET me == flows[f]
        v == validate_fallback(me.state)
    IN  /\ me.pc = "delete"
        /\ \E deleted \in BOOLEAN :
              IF deleted
              THEN /\ redis_states' = redis_states \ {me.state}
                   /\ flows' = [flows EXCEPT ![f] =
                          auth_callback_entry([me EXCEPT !.accepted = TRUE])]
                   /\ UNCHANGED fallback_states
              ELSE /\ fallback_states' = v.fallback
                   /\ flows' = [flows EXCEPT ![f] =
                          IF v.ok
                          THEN auth_callback_entry([me EXCEPT !.accepted = TRUE])
                          ELSE InvalidState(me)]
                   /\ UNCHANGED redis_states
        /\ UNCHANGED <<issued, hooks, stores, webhookVars, limiterVars>>

\* The key of a state reaches its time to live of 600 seconds.
RedisExpire ==
    /\ \E state \in redis_states : redis_states' = redis_states \ {state}
    /\ UNCHANGED <<fallback_states, issued, flows, hooks, stores, webhookVars,
                   limiterVars>>

\* GET /oauth/callback: the route of auth_callback itself.
AuthCallback(f) ==
    /\ Arriving(f)
    /\ \E h \in InstallHashes \cup {<<>>} :
          flows' = [flows EXCEPT ![f] =
              auth_callback_entry([IdleFlow EXCEPT !.route = "callback",
                                                   !.store_hash = h])]
    /\ UNCHANGED <<redis_states, fallback_states, issued, hooks, stores,
                   webhookVars, limiterVars>>

\* exchange_token: the platform grants a token, answers without one, or
\* refuses; every failure is answered 500.
ExchangeToken(f) ==
    LET me == flows[f]
    IN  /\ me.pc = "exchange"
        /\ \E answer \in {"token", "no_token", "refused"} :
              flows' = [flows EXCEPT ![f] =
                  IF answer = "token"
                  THEN [me EXCEPT !.exchanged = TRUE, !.pc = "install",
                                  !.access_token = Granted(f)]
                  ELSE [me EXCEPT !.exchanged = TRUE, !.pc = "done", !.code = 500]]
        /\ UNCHANGED <<redis_states, fallback_states, issued, hooks, stores,
                       webhookVars, limiterVars>>

\* install_store, the select of the existing record.
InstallSelect(f) ==
    LET me == flows[f]
    IN  /\ me.pc = "install"
        /\ flows' = [flows EXCEPT ![f] =
              [me EXCEPT !.installed = TRUE, !.pc = "commit",
                         !.existing = get_store_by_hash(stores, me.store_hash)]]
        /\ UNCHANGED <<redis_states, fallback_states, issued, hooks, stores,
                       webhookVars, limiterVars>>

\* A new record for the store hash.
NewStore(id, store_hash, access_token) ==
    [id |-> id, store_hash |-> store_hash, access_token |-> encrypt_token(access_token),
     brand_id |-> "", is_active |-> TRUE, uninstalled_at |-> FALSE,
     auto_sync_products |-> FALSE]

\* The reinstall leaves uninstalled_at as it is.
install_store_keeping_stamp(table, existing, id, store_hash, access_token) ==
    IF existing # NoStore
    THEN [exc |-> "",
          table |-> [table EXCEPT ![existing.id] =
                        [@ EXCEPT !.access_token = encrypt_token(access_token),
                                  !.is_active = TRUE]]]
    ELSE IF \E i \in DOMAIN table : table[i].store_hash = store_hash
    THEN [exc |-> "IntegrityError", table |-> table]
    ELSE [exc |-> "",
          table |-> [i \in DOMAIN table \cup {id} |->
                        IF i = id THEN NewStore(id, store_hash, access_token)
                        ELSE table[i]]]

\* install_store after its select: the record found is given the new
\* credential and reactivated; without one a record is inserted, which the
\* unique index on store_hash refuses if the hash has a record by now.
install_store(table, existing, id, store_hash, access_token) ==
    IF existing # NoStore
    THEN [exc |-> "",
          table |-> [table EXCEPT ![existing.id] =
                        [@ EXCEPT !.access_token = encrypt_token(access_token),
                                  !.is_active = TRUE,
                                  !.uninstalled_at = FALSE]]]
    ELSE IF \E i \in DOMAIN table : table[i].store_hash = store_hash
    THEN [exc |-> "IntegrityError", table |-> table]
    ELSE [exc |-> "",
          table |-> [i \in DOMAIN table \cup {id} |->
                        IF i = id THEN NewStore(id, store_hash, access_token)
                        ELSE table[i]]]

\* install_store, the write and its commit.
InstallCommit(f) ==
    LET me == flows[f]
        o == install_store(stores, me.existing, NewStoreId(f), me.store_hash,
                           me.access_token)
    IN  /\ me.pc = "commit"
        /\ stores' = o.table
        /\ flows' = [flows EXCEPT ![f] =
              IF o.exc = "" THEN [me EXCEPT !.pc = "register"]
              ELSE [me EXCEPT !.pc = "done", !.code = 500]]
        /\ UNCHANGED <<redis_states, fallback_states, issued, hooks,
                       webhookVars, limiterVars>>

\* Every required scope is created, whatever the store has.
register_all_webhooks_blind(existing) ==
    {[exc |-> "", created |-> required_scopes]} \cup
    {[exc |-> "BigCommerceAPIError", created |-> SubSeq(required_scopes, 1, k)] :
        k \in 0..MaxPartial}

\* The outcomes of register_all_webhooks for a store with the webhooks
\* `existing`: the scopes the store lacks are created in the order of the
\* list; get_webhooks or any create_webhook may raise, which ends the run.
register_all_webhooks(existing) ==
    LET existing_scopes == {existing[i] : i \in DOMAIN existing}
        Lacking(scope) == scope \notin existing_scopes
        todo == SelectSeq(required_scopes, Lacking)
    IN  {[exc |-> "", created |-> todo]} \cup
        {[exc |-> "BigCommerceAPIError", created |-> SubSeq(todo, 1, k)] :
            k \in 0..(IF Len(todo) - 1 < MaxPartial THEN Len(todo) - 1 ELSE MaxPartial)} \cup
        {[exc |-> "BigCommerceAPIError", created |-> <<>>]}

\* register_webhooks; its failure is logged and the merchant is redirected
\* (302) all the same.
RegisterWebhooks(f) ==
    LET me == flows[f]
    IN  /\ me.pc = "register"
        /\ \E o \in register_all_webhooks(hooks[me.store_hash]) :
              /\ hooks' = [hooks EXCEPT ![me.store_hash] = @ \o o.created]
              /\ flows' = [flows EXCEPT ![f] =
                    [me EXCEPT !.pc = "done", !.code = 302,
                               !.had = hooks[me.store_hash],
                               !.created = o.created,
                               !.registered = IF o.exc = "" THEN "complete"
                                              ELSE "failed"]]
        /\ UNCHANGED <<redis_states, fallback_states, issued, stores,
                       webhookVars, limiterVars>>

\* The merchant uninstalls the app: uninstall_store runs for the event
\* store/app/uninstalled; the platform may drop the webhooks of the app.
Uninstall(h) ==
    /\ stores' = uninstall_store(stores, h)
    /\ \E dropped \in BOOLEAN :
          hooks' = IF dropped THEN [hooks EXCEPT ![h] = <<>>] ELSE hooks
    /\ UNCHANGED <<redis_states, fallback_states, issued, flows, webhookVars,
                   limiterVars>>

InstallInit ==
    /\ traffic = [inputs |-> {}, n |-> 0]
    /\ stores = InitialStores
    /\ products = InitialProducts
    /\ ledger = {}
    /\ req = [r \in Requests |-> IdleReq]
    /\ call = NoCall
    /\ NoInstall
    /\ NoTraffic

\* Installing, uninstalling and reinstalling: the requests that reach
\* auth_callback by its own route, and the uninstall events.
InstallNext ==
    \/ \E f \in Flows :
          \/ AuthCallback(f)
          \/ ExchangeToken(f)
          \/ InstallSelect(f)
          \/ InstallCommit(f)
          \/ RegisterWebhooks(f)
    \/ \E h \in InstallHashes : Uninstall(h)

InstallSpec == InstallInit /\ [][InstallNext]_vars

\* The same with the requests to /oauth/auth and their state tokens.
OAuthNext ==
    \/ InstallNext
    \/ AuthStart
    \/ RedisExpire
    \/ \E f \in Flows :
          \/ AuthStartCode(f)
          \/ RedisDelete(f)

OAuthSpec == InstallInit /\ [][OAuthNext]_vars

(***************************************************************************)
(* Rate limiting (middleware/rate_limit.py).  Time is counted in seconds   *)
(* and passes between requests.                                            *)
(***************************************************************************)
\* RateLimitMiddleware(app, requests_per_minute)
requests_per_minute == 2

\* The checks of one behaviour that _check_memory_limit decides.
MaxCalls == 4

\* The last second of a behaviour.
MaxClock == 120

\* now - 60
Window == 60

\* The time that passes between two requests.
Delays == {20, 40}

HealthPath == <<"/", "h", "e", "a", "l", "t", "h">>

RootPath == <<"/">>

WebhooksPrefix == <<"/", "w", "e", "b", "h", "o", "o", "k", "s">>

\* The paths requests name: /health, /healthz, /, /webhooks/bc, /webhook,
\* /health/ and /api.
Paths ==
    {HealthPath, HealthPath \o <<"z">>, RootPath, WebhooksPrefix \o <<"/", "b", "c">>,
     <<"/", "w", "e", "b", "h", "o", "o", "k">>, HealthPath \o <<"/">>,
     <<"/", "a", "p", "i">>}

\* What requests carry in X-Forwarded-For: nothing, or ip2 before a proxy.
ForwardedFor == {"", "ip2"}

\* str.startswith
str_startswith(s, prefix) ==
    Len(prefix) <= Len(s) /\ SubSeq(s, 1, Len(prefix)) = prefix

\* dispatch passes the request on without a check.
Exempt(path) ==
    \/ path \in {HealthPath, HealthPath \o <<"z">>, RootPath}
    \/ str_startswith(path, WebhooksPrefix)

\* _get_client_ip: the first entry of X-Forwarded-For (forwarded, "" when
\* the header is absent), else the peer address.
get_client_ip(forwarded, host) == IF forwarded # "" THEN forwarded ELSE host

\* The timestamps of requests that are later than minute_ago.
Recent(requests, minute_ago) ==
    LET Later(t) == t > minute_ago IN SelectSeq(requests, Later)

\* The request is recorded before the limit is tested.
check_memory_limit_counting_all(requests, now) ==
    LET recent == Recent(requests, now - Window)
    IN  IF Len(recent) >= requests_per_minute
        THEN [limited |-> TRUE, remaining |-> 0, requests |-> Append(recent, now)]
        ELSE [limited |-> FALSE,
              remaining |-> requests_per_minute - (Len(recent) + 1),
              requests |-> Append(recent, now)]

\* _check_memory_limit for the list of one client: the list is pruned to the
\* last 60 seconds; at the limit the request is refused, else it is recorded.
check_memory_limit(requests, now) ==
    LET recent == Recent(requests, now - Window)
    IN  IF Len(recent) >= requests_per_minute
        THEN [limited |-> TRUE, remaining |-> 0, requests |-> recent]
        ELSE [limited |-> FALSE,
              remaining |-> requests_per_minute - (Len(recent) + 1),
              requests |-> Append(recent, now)]

\* _check_redis_limit with Redis: INCR, and EXPIRE 60 for a new key.
check_redis_limit(count, now) ==
    LET live == IF count.n > 0 /\ count.expires > now THEN count ELSE NoCount
        current == live.n + 1
    IN  [limited |-> current > requests_per_minute,
         remaining |-> IF requests_per_minute > current
                       THEN requests_per_minute - current ELSE 0,
         count |-> [n |-> current,
                    expires |-> IF current = 1 THEN now + Window ELSE live.expires]]

\* The answer of dispatch: 429 for a limited request, else what the
\* application answers.
Verdict(ip, exempt, via, limited) ==
    [ip |-> ip, exempt |-> exempt, via |-> via, limited |-> limited,
     code |-> IF limited THEN 429 ELSE 200]

\* Time passes.
Tick ==
    /\ \E d \in Delays :
          /\ clock + d <= MaxClock
          /\ clock' = clock + d
    /\ UNCHANGED <<fallback_requests, redis_counts, verdicts, stores, webhookVars,
                   oauthVars>>

\* RateLimitMiddleware.dispatch for a request that is passed on unchecked.
DispatchExempt ==
    /\ \E path \in Paths, forwarded \in ForwardedFor, host \in ClientIPs :
          /\ Exempt(path)
          /\ verdicts' = [verdicts EXCEPT !.last =
                Verdict(get_client_ip(forwarded, host), TRUE, "none", FALSE)]
    /\ UNCHANGED <<clock, fallback_requests, redis_counts, stores, webhookVars,
                   oauthVars>>

\* RateLimitMiddleware.dispatch for a checked request, without Redis.
DispatchMemory ==
    /\ ~redis_counts.up
    /\ Len(verdicts.memory) < MaxCalls
    /\ \E path \in Paths, forwarded \in ForwardedFor, host \in ClientIPs :
          LET ip == get_client_ip(forwarded, host)
              o == check_memory_limit(fallback_requests[ip], clock)
          IN  /\ ~Exempt(path)
              /\ fallback_requests' = [fallback_requests EXCEPT ![ip] = o.requests]
              /\ verdicts' =
                    [memory |-> Append(verdicts.memory,
                                       [ip |-> ip, at |-> clock, limited |-> o.limited]),
                     last |-> Verdict(ip, FALSE, "memory", o.limited)]
    /\ UNCHANGED <<clock, redis_counts, stores, webhookVars, oauthVars>>

\* RateLimitMiddleware.dispatch for a checked request, with Redis.
DispatchRedis ==
    /\ redis_counts.up
    /\ \E path \in Paths, forwarded \in ForwardedFor, host \in ClientIPs :
          LET ip == get_client_ip(forwarded, host)
              o == check_redis_limit(redis_counts.keys[ip], clock)
          IN  /\ ~Exempt(path)
              /\ o.count.n <= requests_per_minute + 1
              /\ redis_counts' = [redis_counts EXCEPT !.keys[ip] = o.count]
              /\ verdicts' = [verdicts EXCEPT !.last =
                    Verdict(ip, FALSE, "redis", o.limited)]
    /\ UNCHANGED <<clock, fallback_requests, stores, webhookVars, oauthVars>>

\* The deployment has Redis or has none.
RateInit ==
    /\ traffic = [inputs |-> {}, n |-> 0]
    /\ stores = InitialStores
    /\ products = InitialProducts
    /\ ledger = {}
    /\ req = [r \in Requests |-> IdleReq]
    /\ call = NoCall
    /\ NoInstall
    /\ clock = 0
    /\ fallback_requests = [ip \in ClientIPs |-> <<>>]
    /\ redis_counts \in {[up |-> up, keys |-> [ip \in ClientIPs |-> NoCount]] :
                            up \in BOOLEAN}
    /\ verdicts = [memory |-> <<>>, last |-> NoVerdict]

RateNext ==
    \/ Tick
    \/ DispatchExempt
    \/ DispatchMemory
    \/ DispatchRedis

RateSpec == RateInit /\ [][RateNext]_vars

(***************************************************************************)
(* Properties.                                                             *)
(***************************************************************************)
\* The header is the hex HMAC-SHA256 of the body under the client secret, in
\* full, whatever the case of its hex letters.
CorrectSignature(sig, body) ==
    /\ sig.kind = "hex"
    /\ sig.key = ClientSecret
    /\ sig.msg = body
    /\ ~sig.cut

Arrived(r) == req[r].pc # "idle"

Completed(r) == req[r].pc = "done"

\* The request wrote nothing to the ledger and ran no handler.
Untouched(r) ==
    /\ req[r].log = 0
    /\ ~req[r].routed
    /\ req[r].called = {}
    /\ \A row \in ledger : row.id # r

\* The row has made the transition mark_processed makes.
MarkedProcessed(row) == row.status = mark_processed(row, row.result).status

SameEvent(r, q) ==
    /\ req[r].store # NoStore
    /\ req[r].store.id = req[q].store.id
    /\ payload_hash(req[r].body) = payload_hash(req[q].body)

\* C1: a delivery whose deduplication select finds the row of an earlier
\* delivery of the same payload that completed successfully is answered
\* {status: duplicate, result: already_processed}, runs no handler and makes no
\* collaborator call (so track_conversion is called once in total).
C1_SecondDeliveryIsDuplicate ==
    \A r \in Requests :
        (Completed(r) /\ req[r].duplicate # NoLog /\ MarkedProcessed(req[r].duplicate))
            => /\ req[r].response = Ack("duplicate", "already_processed", NoResult)
               /\ ~req[r].routed
               /\ req[r].called = {}

\* C2: two executions for the same (store, content hash) are never both past
\* the deduplication check and about to run the handler.
C2_NoTwoPassDedup ==
    \A r, q \in Requests :
        (r # q /\ req[r].pc = "route" /\ req[q].pc = "route") => ~SameEvent(r, q)

\* C3: a request whose signature header is missing, empty, truncated or not the
\* HMAC of the body under the client secret is answered 401 before parsing,
\* store lookup, ledger write or handler; one with the correct signature is
\* never answered 401.  (Refuted by a header with a non-ASCII character.)
C3_SignatureGate ==
    \A r \in Requests :
        Arrived(r) =>
            IF CorrectSignature(req[r].sig, req[r].body)
            THEN req[r].response.code # 401
            ELSE /\ Completed(r)
                 /\ req[r].response.code = 401
                 /\ ~req[r].parsed
                 /\ req[r].store = NoStore
                 /\ Untouched(r)

\* The body is a webhook envelope: a JSON object whose producer is a string.
Envelope(body) ==
    /\ body.decodable /\ body.wellformed /\ body.isobj
    /\ get_producer(body).t = "str"

\* C4: every completed request that carried a correctly signed webhook
\* envelope is answered 200 with status processed, duplicate, ignored or
\* error, whatever was delivered before it.
C4_FailSoft ==
    \A r \in Requests :
        (Completed(r) /\ CorrectSignature(req[r].sig, req[r].body) /\ Envelope(req[r].body))
            => /\ req[r].response.code = 200
               /\ req[r].response.status \in {"processed", "duplicate", "ignored", "error"}

\* C5: when the scope handler raised (in particular when get_order failed),
\* the request's ledger row is failed with the error text and the answer is
\* 200 {status: error, error: text}.
C5_HandlerErrorRecorded ==
    \A r \in Requests :
        (Completed(r) /\ req[r].routed /\ (req[r].exc # "" \/ "get_order" \in req[r].raised))
            => /\ req[r].exc # ""
               /\ \E row \in ledger :
                     /\ row.id = req[r].log
                     /\ row.status = "failed"
                     /\ row.error = req[r].exc
               /\ req[r].response = Ack("error", req[r].exc, NoResult)

C5_Witness ==
    \E r \in Requests :
        /\ Completed(r)
        /\ "get_order" \in req[r].raised
        /\ req[r].body.new_status_id \in conversion_statuses \cup refund_statuses
        /\ req[r].response.status = "error"

\* C6: when track_conversion or track_adjustment raised, the request's ledger
\* row is failed with the error text and the answer has status error.
C6_AffiliateFailureIsHandlerError ==
    \A r \in Requests :
        (Completed(r) /\ req[r].raised \cap {"track_conversion", "track_adjustment"} # {})
            => /\ \E row \in ledger :
                     row.id = req[r].log /\ row.status = "failed" /\ row.error # ""
               /\ req[r].response.status = "error"

\* C7: for each (store, content hash) at most one ledger row has made the
\* transition to the successful terminal status.
C7_AtMostOneProcessed ==
    \A row, other \in ledger :
        (/\ row.store_id = other.store_id
         /\ row.hash = other.hash
         /\ MarkedProcessed(row)
         /\ MarkedProcessed(other)) => row = other

\* C8: the status of every ledger row is received, processed or failed, and a
\* row whose handler completed has the status the deduplication check tests.
C8_StatusDomain ==
    \A row \in ledger : row.status \in {"received", "processed", "failed"}

\* The producer of the envelope yields no store hash.
NoStoreHash(body) ==
    \/ ~HasKey(body, "producer")
    \/ body.producer.t = "null"
    \/ body.producer.t = "str" /\ (body.producer.s = <<>> \/ body.producer.s[Len(body.producer.s)] = "/")

\* The text after the last "/" of the producer is the hash of a stored store.
StoreKnown(body) ==
    \E i \in StoreIds : \E k \in 0..Len(body.producer.s) :
        /\ k = 0 \/ body.producer.s[k] = "/"
        /\ SubSeq(body.producer.s, k + 1, Len(body.producer.s)) = stores[i].store_hash
        /\ \A j \in (k + 1)..Len(body.producer.s) : body.producer.s[j] # "/"

\* C9: a correctly signed JSON object whose producer yields no store hash, or
\* whose store hash matches no store, is answered 200 {status: ignored} with
\* reason missing_store_hash or store_not_found; no row, no handler, no call.
C9_UnknownStoreIgnored ==
    \A r \in Requests :
        (/\ Arrived(r)
         /\ CorrectSignature(req[r].sig, req[r].body)
         /\ req[r].body.decodable /\ req[r].body.wellformed /\ req[r].body.isobj
         /\ (NoStoreHash(req[r].body) \/ (req[r].body.producer.t = "str" /\ ~StoreKnown(req[r].body))))
            => /\ Completed(r)
               /\ req[r].response =
                     Ack("ignored",
                         IF NoStoreHash(req[r].body) THEN "missing_store_hash"
                                                     ELSE "store_not_found",
                         NoResult)
               /\ Untouched(r)

C9_Witness ==
    /\ \E r \in Requests :
          Completed(r) /\ req[r].response = Ack("ignored", "store_not_found", NoResult)
                       /\ req[r].body = StatusZ10
    /\ \A r \in Requests : Completed(r)

\* C10: a correctly signed body that is no valid JSON is answered 400, with no
\* ledger row and no handler run.
C10_MalformedJsonRejected ==
    \A r \in Requests :
        (/\ Arrived(r)
         /\ CorrectSignature(req[r].sig, req[r].body)
         /\ ~(req[r].body.decodable /\ req[r].body.wellformed))
            => /\ Completed(r)
               /\ req[r].response.code = 400
               /\ Untouched(r)

\* The scopes of the dispatch table of route_webhook.
InDispatchTable(scope) ==
    scope \in {"store/order/created", "store/order/updated", "store/order/statusUpdated",
               "store/product/created", "store/product/updated",
               "store/product/deleted", "store/app/uninstalled"}

\* C11: a webhook of a known store that reached the dispatcher with a scope
\* outside the dispatch table has the result {status: unhandled, scope}, made no
\* commerce-platform or affiliate-backend call, is answered with status
\* processed, and its ledger row has made the successful transition, not failed.
C11_UnhandledScopeProcessed ==
    \A r \in Requests :
        (Completed(r) /\ req[r].routed /\ ~InDispatchTable(get_scope(req[r].body)))
            => /\ req[r].result = [status |-> "unhandled", scope |-> get_scope(req[r].body)]
               /\ req[r].called = {}
               /\ req[r].response = Ack("processed", "", req[r].result)
               /\ \E row \in ledger :
                     /\ row.id = req[r].log
                     /\ MarkedProcessed(row)
                     /\ row.status # "failed"
                     /\ row.result = req[r].result

C11_Witness ==
    \E r \in Requests :
        /\ Completed(r)
        /\ req[r].body = CartA
        /\ req[r].routed
        /\ req[r].response.status = "processed"

\* The call of handle_order_status_updated has been made with this status code.
StatusCall(st) ==
    /\ call.fn = "handle_order_status_updated"
    /\ call.done
    /\ call.arg.payload.new_status_id = st

\* The outcome of a fetch of the full order that failed.
FetchFailed(o) == o.exc # "" /\ o.result = NoResult /\ o.called \subseteq {"get_order"}

\* C12: a statusUpdated event with new_status_id in {2, 3, 10} fetches the
\* order and runs conversion tracking; with {4, 5, 6} it fetches the order and
\* runs the refund adjustment; with any other code, or none, it only logs: no
\* order fetch and no affiliate-backend call.
C12_StatusBucketing ==
    \A st \in {NoneId} \cup 0..12 :
        StatusCall(st) =>
            IF st \in {2, 3, 10}
            THEN \/ FetchFailed(call.out)
                 \/ /\ call.out.exc = ""
                    /\ "get_order" \in call.out.called
                    /\ "track_adjustment" \notin call.out.called
                    /\ call.out.result.status \in
                          {"no_attribution", "not_connected", "tracked", "error"}
                    /\ call.out.result.status \in {"tracked", "error"}
                          <=> "track_conversion" \in call.out.called
            ELSE IF st \in {4, 5, 6}
            THEN \/ FetchFailed(call.out)
                 \/ /\ call.out.exc = ""
                    /\ "get_order" \in call.out.called
                    /\ "track_conversion" \notin call.out.called
                    /\ call.out.result.status \in
                          {"not_connected", "no_refund", "adjusted", "error"}
                    /\ call.out.result.status \in {"adjusted", "error"}
                          <=> "track_adjustment" \in call.out.called
            ELSE /\ call.out.exc = ""
                 /\ call.out.result.status = "logged"
                 /\ call.out.result.status_id = st
                 /\ call.out.called = {}

C12_Witness ==
    /\ StatusCall(11)
    /\ call.arg.store.brand_id # ""
    /\ call.out.result.status = "logged"

\* The calls that go to the affiliate backend.
AffiliateCalls == {"track_conversion", "track_adjustment", "sync_product", "delete_product"}

\* C13: a request of a store without brand_id has made no affiliate-backend
\* call; once it has run its handler its ledger row is written (processed or
\* failed) and it is answered 200; and every completed request of such a store
\* finds its event recorded in the ledger.
C13_UnlinkedStoreNoAffiliateCall ==
    \A r \in Requests :
        (Arrived(r) /\ req[r].store # NoStore /\ req[r].store.brand_id = "")
            => /\ req[r].called \cap AffiliateCalls = {}
               /\ (Completed(r) /\ req[r].routed)
                     => /\ req[r].response.code = 200
                        /\ \E row \in ledger :
                              /\ row.id = req[r].log
                              /\ row.store_id = req[r].store.id
                              /\ MarkedProcessed(row) \/ row.status = "failed"
               /\ Completed(r)
                     => \E row \in ledger :
                           /\ row.store_id = req[r].store.id
                           /\ row.hash = payload_hash(req[r].body)

C13_Witness ==
    /\ \E r \in Requests :
          /\ Completed(r)
          /\ req[r].body = ProductCreatedB
          /\ req[r].response.status = "processed"
          /\ req[r].result.status = "synced"
    /\ \E p \in products : p.store_id = "idB" /\ p.bc_product_id = 8

ProcessOrderCall == call.fn = "process_order" /\ call.done

\* None of the six locations of the order yields a tracking code.
NoCodeAnywhere(o) ==
    /\ ~CodeTruthy(extract_from_custom_fields(o))
    /\ ~CodeTruthy(extract_from_notes(o.staff_notes))
    /\ ~CodeTruthy(extract_from_notes(o.customer_message))
    /\ ~CodeTruthy(extract_from_metadata(o))
    /\ ~CodeTruthy(extract_from_form_fields(o))
    /\ ~CodeTruthy(extract_from_url(o.external_source))

\* C14: for an order in which none of the six locations yields a tracking
\* code, process_order returns status no_attribution and calls nothing.
C14_UnattributedOrder ==
    (ProcessOrderCall /\ NoCodeAnywhere(call.arg.order))
        => /\ call.out.exc = ""
           /\ call.out.result.status = "no_attribution"
           /\ call.out.called = {}

C14_Witness ==
    /\ ProcessOrderCall
    /\ NoCodeAnywhere(call.arg.order)
    /\ call.arg.order.form_fields # <<>>
    /\ call.arg.order.custom_fields # <<>>
    /\ call.arg.store.brand_id # ""
    /\ call.out.result.status = "no_attribution"

ProcessRefundCall == call.fn = "process_refund" /\ call.done

\* refunded_amount is zero or the order has no such member.
ZeroRefund(o) == o.refunded_amount \in {Absent, Num(0)}

\* C15 as stated: for every order whose refunded_amount is zero or absent,
\* process_refund returns no_refund and issues no track_adjustment call.
C15_ZeroRefundAlwaysNoRefund ==
    (ProcessRefundCall /\ ZeroRefund(call.arg.order))
        => /\ call.out.result.status = "no_refund"
           /\ "track_adjustment" \notin call.out.called

\* C15 amended: for every order whose refunded_amount is zero or absent,
\* process_refund issues no track_adjustment call and returns no_refund when
\* the store is linked to a brand, not_connected when it is not.
C15_ZeroRefundGuard ==
    (ProcessRefundCall /\ ZeroRefund(call.arg.order))
        => /\ call.out.exc = ""
           /\ call.out.called = {}
           /\ call.out.result.status =
                 IF call.arg.store.brand_id = "" THEN "not_connected" ELSE "no_refund"

C15_Witness ==
    /\ ProcessRefundCall
    /\ call.arg.order.refunded_amount = Num(0)
    /\ call.arg.store.brand_id # ""
    /\ call.out.result.status = "no_refund"

\* C16 as stated: for a store without brand_id, process_order and
\* process_refund return not_connected for every order and call nothing.
C16_UnlinkedAlwaysNotConnected ==
    ((ProcessOrderCall \/ ProcessRefundCall) /\ call.arg.store.brand_id = "")
        => /\ call.out.result.status = "not_connected"
           /\ call.out.called = {}

\* C16 amended: for a store without brand_id, process_refund returns
\* not_connected for every order, process_order returns not_connected for every
\* order that yields a tracking code and no_attribution for every other order;
\* neither raises and neither makes a call.
C16_UnlinkedNotConnected ==
    ((ProcessOrderCall \/ ProcessRefundCall) /\ call.arg.store.brand_id = "")
        => /\ call.out.exc = ""
           /\ call.out.called = {}
           /\ call.out.result.status =
                 IF ProcessOrderCall /\ NoCodeAnywhere(call.arg.order)
                 THEN "no_attribution" ELSE "not_connected"

C16_Witness ==
    /\ ProcessRefundCall
    /\ call.arg.store.brand_id = ""
    /\ call.arg.order.refunded_amount = Num(0)
    /\ call.out.result.status = "not_connected"

\* What each of the six locations yields, in the order of the claim.
LocationCodes(o) ==
    <<extract_from_custom_fields(o), extract_from_notes(o.staff_notes),
      extract_from_notes(o.customer_message), extract_from_metadata(o),
      extract_from_form_fields(o), extract_from_url(o.external_source)>>

\* The first non-empty code of the sequence, None when there is none.
FirstCode(codes) ==
    IF \E i \in DOMAIN codes : CodeTruthy(codes[i])
    THEN codes[CHOOSE i \in DOMAIN codes :
                  /\ CodeTruthy(codes[i])
                  /\ \A h \in 1..(i - 1) : ~CodeTruthy(codes[h])]
    ELSE NoCode

ExtractCall == call.fn = "extract_tracking_code" /\ call.done

\* C17: extract_tracking_code returns what the first of custom fields, staff
\* notes, customer message, metadata, form fields, external-source URL that
\* yields a code yields; custom field "Affiliate Code" = X1 wins over a staff
\* note "ref=X2".
C17_ResolverPriority ==
    ExtractCall
        => /\ call.out = FirstCode(LocationCodes(call.arg.order))
           /\ (/\ \E i \in DOMAIN call.arg.order.custom_fields :
                     call.arg.order.custom_fields[i] =
                         CustomField(AffiliateCode, StrVal(X1))
               /\ call.arg.order.staff_notes = RefX2) => call.out = StrVal(X1)

C17_Witness ==
    /\ ExtractCall
    /\ call.arg.order.custom_fields =
          <<CustomField(GiftNote, StrVal(Gift)), CustomField(AffiliateCode, StrVal(X1))>>
    /\ call.arg.order.staff_notes = RefX2
    /\ call.arg.order.metadata = Metadata("ref" :> StrVal(X4))
    /\ call.out = StrVal(X1)

\* The first present and non-null of the four totals, 0 when there is none.
FirstTotal(o) ==
    IF o.total_inc_tax.t = "num" THEN o.total_inc_tax.n
    ELSE IF o.total_ex_tax.t = "num" THEN o.total_ex_tax.n
    ELSE IF o.subtotal_inc_tax.t = "num" THEN o.subtotal_inc_tax.n
    ELSE IF o.subtotal_ex_tax.t = "num" THEN o.subtotal_ex_tax.n
    ELSE 0

\* C18: get_order_total returns the first present and non-null of
\* total_inc_tax, total_ex_tax, subtotal_inc_tax, subtotal_ex_tax, and returns
\* zero without raising when there is none, also when a member is null.
C18_OrderTotalFallback ==
    (call.fn = "get_order_total" /\ call.done)
        => /\ call.out.exc = ""
           /\ call.out.value = FirstTotal(call.arg.order)

\* C19: verify_webhook_hmac never raises, and returns true exactly when the
\* signature is the hex HMAC-SHA256 of the body under the client secret,
\* whatever the case of its hex letters.
C19_VerifyTotal ==
    (call.fn = "verify_webhook_hmac" /\ call.done)
        => /\ call.out.exc = ""
           /\ call.out.value <=> CorrectSignature(call.arg.signature, call.arg.payload)

\* C20: the conversion record built for an order has conversion_type refund
\* when the order's status code is 4, 5 or 6, and purchase for any other.
C20_ConversionType ==
    (call.fn = "build_conversion_data" /\ call.done /\ call.out.exc = "")
        => call.out.data.conversion_type =
              IF call.arg.order.status_id \in {Num(n) : n \in refund_statuses}
              THEN "refund" ELSE "purchase"

\* The request carries no credential that require_auth accepts.
Unauthenticated(q) == require_auth(q.api_key, q.credentials) # NoResponse

\* C21: a request to GET /api/products or POST /api/products/sync that carries
\* no valid credential is answered 401 or 403, is handed no data, starts no
\* collaborator call and leaves the product table as it was.
C21_ApiRequiresAuth ==
    (call.fn \in ApiCalls /\ call.done /\ Unauthenticated(call.arg.request))
        => /\ call.out.response.code \in {401, 403}
           /\ call.out.response.result = NoResult
           /\ call.out.called = {}
           /\ products = InitialProducts

\* sync_all_products has returned its stats.
SyncCall == call.fn = "sync_all_products" /\ call.done /\ call.out.exc = ""

\* The positions of the fetched list whose product fails.
FailingProducts ==
    {i \in 1..Len(call.arg.batch) : ProductFails(call.arg.store, call.arg.batch[i])}

\* C22: when sync_all_products returns, stats.total is the number of fetched
\* products, the loop has taken up every one of them, each failing product has
\* its entry in stats.errors (one entry per failure), and every product that
\* did not fail is stored, wherever in the list the failures were.
C22_BatchIsolation ==
    SyncCall
        => /\ call.out.result.total = Len(call.arg.batch)
           /\ call.out.attempted = Len(call.arg.batch)
           /\ Len(call.out.result.errors) = Cardinality(FailingProducts)
           /\ \A i \in FailingProducts :
                 \E e \in DOMAIN call.out.result.errors :
                     call.out.result.errors[e].product_id = call.arg.batch[i].id
           /\ \A i \in (1..Len(call.arg.batch)) \ FailingProducts :
                 \E p \in products :
                     /\ p.store_id = call.arg.store.id
                     /\ p.bc_product_id = call.arg.batch[i].id

C22_Witness ==
    /\ SyncCall
    /\ Len(call.arg.batch) = MaxBatch
    /\ call.arg.batch[1].fate = "commit_raises"
    /\ call.arg.batch[2].fate = "sync_product_raises"
    /\ call.arg.batch[MaxBatch] = FetchedProduct(8, "ok")
    /\ call.arg.store.brand_id # ""
    /\ Len(call.out.result.errors) = 2
    /\ call.out.result.synced_to_affilync = 1
    /\ \E p \in products : p.store_id = call.arg.store.id /\ p.bc_product_id = 8 /\ p.is_synced

\* The row has one of the two statuses a finished request writes.
Terminal(row) == MarkedProcessed(row) \/ row.status = mark_failed(row, row.error).status

\* C23: in every step each ledger row stays in the ledger; a row that is
\* terminal stays as it is in every column; a row that changes was received,
\* becomes terminal with its timestamp set, and is changed by the step in
\* which the request that inserted it finishes; a new row is inserted as
\* received by the request whose id it carries.
C23_Terminality ==
    [][/\ \A row \in ledger :
             \E after \in ledger' :
                 /\ after.id = row.id
                 /\ \A other \in ledger' : other.id = row.id => other = after
                 /\ IF Terminal(row) THEN after = row
                    ELSE \/ after = row
                         \/ /\ row.status = "received"
                            /\ Terminal(after)
                            /\ after.processed_at
                            /\ req[row.id].pc = "route"
                            /\ req'[row.id].pc = "done"
                            /\ req'[row.id].log = row.id
                            /\ [after EXCEPT !.status = row.status, !.result = row.result,
                                             !.error = row.error,
                                             !.processed_at = row.processed_at] = row
       /\ \A after \in ledger' :
             (\A row \in ledger : row.id # after.id)
                 => /\ after.status = "received"
                    /\ ~after.processed_at
                    /\ req[after.id].pc = "log_insert"]_vars

\* A failed first delivery was retried with success: the row of the first
\* delivery still says failed, with its error.
C23_Witness ==
    \E r, q \in Requests :
        /\ r < q
        /\ Completed(r) /\ req[r].routed /\ req[r].exc # ""
        /\ Completed(q) /\ req[q].routed /\ req[q].exc = ""
        /\ SameEvent(r, q)
        /\ \E row \in ledger :
              row.id = r /\ row.status = "failed" /\ row.error = req[r].exc
        /\ \E row \in ledger : row.id = q /\ MarkedProcessed(row)

\* The rows other requests wrote for the event of request q.
OtherEntries(q) ==
    {row \in ledger : /\ row.id # q
                      /\ row.store_id = req[q].store.id
                      /\ row.hash = payload_hash(req[q].body)}

\* C24: a completed delivery of an event that has earlier ledger rows, none of
\* them successfully processed (all failed or received), has run the handler
\* and is not answered "duplicate".
C24_RetryTreatedAsNew ==
    \A q \in Requests :
        (/\ Completed(q)
         /\ req[q].store # NoStore
         /\ \E row \in OtherEntries(q) : row.id < q
         /\ \A row \in OtherEntries(q) : ~MarkedProcessed(row))
            => /\ req[q].routed
               /\ req[q].response.status # "duplicate"

\* C25: the ledger holds at most one row per (store id, content hash).
C25_LedgerIdentity ==
    \A row, other \in ledger :
        (row.store_id = other.store_id /\ row.hash = other.hash) => row = other

\* The order with its form fields entered as custom fields.
AsCustomFields(o) == [o EXCEPT !.custom_fields = o.form_fields]

\* C26: the form-field probe yields a code exactly when the custom-field
\* probe yields one for fields of the same names and values, and then the
\* same code.
C26_FormFieldProbe ==
    (call.fn = "extract_from_form_fields" /\ call.done)
        => /\ CodeTruthy(call.out)
                 <=> CodeTruthy(extract_from_custom_fields(AsCustomFields(call.arg.order)))
           /\ CodeTruthy(call.out)
                 => call.out = extract_from_custom_fields(AsCustomFields(call.arg.order))

\* C27: extract_tracking_code returns None when none of the six locations
\* yields a code; what it returns otherwise is a string that is not empty and
\* has no white space at either end; and a location whose candidate is empty
\* after trimming does not keep a lower location from being used.
C27_CodeNeverBlank ==
    ExtractCall
        => /\ (\A i \in 1..6 : ~CodeTruthy(LocationCodes(call.arg.order)[i]))
                 => call.out = NoCode
           /\ call.out # NoCode
                 => /\ call.out.t = "str"
                    /\ call.out.s # <<>>
                    /\ Strip(call.out.s) = call.out.s
           /\ \A i, j \in 1..6 :
                 (/\ i < j
                  /\ LocationCodes(call.arg.order)[i] = StrVal(<<>>)
                  /\ CodeTruthy(LocationCodes(call.arg.order)[j]))
                    => CodeTruthy(call.out)

C27_Witness ==
    /\ ExtractCall
    /\ call.arg.order.custom_fields = <<CustomField(AffiliateCode, StrVal(<<" ">>))>>
    /\ extract_from_custom_fields(call.arg.order) = StrVal(<<>>)
    /\ call.arg.order.metadata = Metadata("tracking_code" :> StrVal(<<>>) @@ "ref" :> StrVal(X4))
    /\ extract_from_metadata(call.arg.order) = StrVal(<<>>)
    /\ call.arg.order.form_fields = <<CustomField(Referral, StrVal(X5))>>
    /\ call.out = StrVal(X5)

\* C28: the row the deduplication select of a request finds belongs to the
\* request's store and has the hash of its payload; deliveries for two stores
\* are each handled and neither is answered "duplicate"; and a delivery whose
\* select finds the successfully processed row of a payload that differs
\* from its own in key order only is answered "duplicate" and runs no handler.
C28_DedupKey ==
    /\ \A q \in Requests :
          req[q].duplicate # NoLog
              => /\ req[q].duplicate.store_id = req[q].store.id
                 /\ req[q].duplicate.hash = payload_hash(req[q].body)
    /\ \A r, q \in Requests :
          (/\ Completed(r) /\ req[r].store # NoStore
           /\ Completed(q) /\ req[q].store # NoStore
           /\ req[r].store.id # req[q].store.id)
              => /\ req[q].routed
                 /\ req[q].response.status # "duplicate"
                 /\ req[q].duplicate = NoLog \/ req[q].duplicate.id # r
    /\ \A q \in Requests :
          (/\ Completed(q)
           /\ req[q].duplicate # NoLog
           /\ MarkedProcessed(req[q].duplicate)
           /\ req[req[q].duplicate.id].body # req[q].body)
              => /\ req[q].response = Ack("duplicate", "already_processed", NoResult)
                 /\ ~req[q].routed

\* The request to the commerce platform failed: no answer, or a status >= 400.
RequestFailed(answer) ==
    \/ answer.kind \in {"timeout", "request_error"}
    \/ answer.status_code >= 400

\* C29: a failed request of an opened client raises BigCommerceAPIError with
\* status 504 for a timeout, 503 for a transport error, and the status of the
\* response otherwise (429 with the retry hint in its message).
C29_TypedApiError ==
    (call.fn = "request" /\ call.done /\ call.arg.opened /\ RequestFailed(call.arg.answer))
        => /\ call.out.exc = "BigCommerceAPIError"
           /\ call.out.status_code =
                 IF call.arg.answer.kind = "timeout" THEN 504
                 ELSE IF call.arg.answer.kind = "request_error" THEN 503
                 ELSE call.arg.answer.status_code
           /\ call.arg.answer.status_code = 429
                 => call.out.message[2] \in {"1000", call.arg.answer.reset_ms}

\* C30: a store/order/created or store/order/updated event that reached its
\* handler has the result {status: logged, order_id}, made no call to the
\* commerce platform or the affiliate backend and is answered processed; a
\* request that called the affiliate backend for a conversion or an
\* adjustment carries a store/order/statusUpdated event.
C30_OrderEventsOnlyLogged ==
    \A r \in Requests :
        /\ (/\ Completed(r)
            /\ req[r].routed
            /\ get_scope(req[r].body) \in {"store/order/created", "store/order/updated"})
              => /\ req[r].result = [status |-> "logged", order_id |-> req[r].body.id]
                 /\ req[r].called = {}
                 /\ req[r].response = Ack("processed", "", req[r].result)
        /\ req[r].called \cap {"get_order", "track_conversion", "track_adjustment"} # {}
              => get_scope(req[r].body) = "store/order/statusUpdated"

C30_Witness ==
    \E r, q \in Requests :
        /\ Completed(r) /\ req[r].body = CreatedA
        /\ req[r].response.status = "processed"
        /\ req[r].result = [status |-> "logged", order_id |-> 7]
        /\ Completed(q) /\ q # r /\ req[q].routed /\ req[q].called = {}

\* The event of request r has no successfully processed row in the ledger.
NotADuplicate(r) ==
    \A row \in Matching(ledger, req[r].store.id, payload_hash(req[r].body)) :
        ~MarkedProcessed(row)

\* C31: every delivery that has passed admission for a known store and is not
\* a duplicate eventually has its own ledger row in status processed or failed.
C31_EventuallyTerminal ==
    \A r \in Requests :
        (req[r].pc = "log_select" /\ NotADuplicate(r))
            ~> (\E row \in ledger : row.id = r /\ row.status \in {"processed", "failed"})

\* Requests r and q handled order status events of the same store and order.
SameOrder(r, q) ==
    /\ req[r].store # NoStore
    /\ req[r].store.id = req[q].store.id
    /\ get_scope(req[r].body) = "store/order/statusUpdated"
    /\ get_scope(req[q].body) = "store/order/statusUpdated"
    /\ req[r].body.id = req[q].body.id

\* C32: of two deliveries of distinct store/order/statusUpdated events for the
\* same store and the same order, at most one has invoked track_conversion.
C32_OneConversionPerOrder ==
    \A r, q \in Requests :
        (/\ r # q
         /\ SameOrder(r, q)
         /\ payload_hash(req[r].body) # payload_hash(req[q].body))
            => ~("track_conversion" \in req[r].called /\ "track_conversion" \in req[q].called)

\* C33: once a store/app/uninstalled event has been handled the store record
\* is inactive and its credential is cleared; and a delivery that finds the
\* store inactive makes no call to the affiliate backend.
C33_UninstalledStoreSilent ==
    \A r \in Requests :
        /\ (/\ Completed(r) /\ req[r].routed /\ req[r].exc = ""
            /\ get_scope(req[r].body) = "store/app/uninstalled")
               => /\ ~stores[req[r].store.id].is_active
                  /\ stores[req[r].store.id].access_token = ""
        /\ (Arrived(r) /\ req[r].store # NoStore /\ ~req[r].store.is_active)
               => req[r].called \cap AffiliateCalls = {}

\* The store record after uninstall_store.
Uninstalled(record) ==
    [record EXCEPT !.is_active = FALSE, !.uninstalled_at = TRUE, !.access_token = ""]

\* The store record after the reinstall with the credential of flow f.
Reinstalled(record, f) ==
    [record EXCEPT !.is_active = TRUE, !.uninstalled_at = FALSE,
                   !.access_token = encrypt_token(flows[f].access_token)]

\* C34: in every step of installing, uninstalling and reinstalling there is
\* afterwards at most one store record per store hash, the products and the
\* ledger are as before, and every record stays; a record that changes either
\* becomes inactive, stamped, without credential and otherwise as it was
\* (uninstall), or becomes active, unstamped, with the credential granted to the
\* installing flow and otherwise as it was (reinstall): the id, the store hash,
\* the brand link and the settings never change.
C34_StoreLifecycle ==
    [][/\ \A i, j \in DOMAIN stores' :
             stores'[i].store_hash = stores'[j].store_hash => i = j
       /\ products' = products
       /\ ledger' = ledger
       /\ \A i \in DOMAIN stores :
             /\ i \in DOMAIN stores'
             /\ stores'[i].brand_id = stores[i].brand_id
             /\ stores'[i].auto_sync_products = stores[i].auto_sync_products
             /\ stores'[i] # stores[i]
                   => \/ stores'[i] = Uninstalled(stores[i])
                      \/ \E f \in Flows :
                            /\ flows[f].pc = "commit"
                            /\ flows'[f].pc = "register"
                            /\ flows[f].store_hash = stores[i].store_hash
                            /\ stores'[i] = Reinstalled(stores[i], f)
                            /\ stores'[i].access_token \notin {"", stores[i].access_token}]_vars

\* Store a was uninstalled and has been installed again: the record install_store
\* found was inactive and stamped, and is now the initial record with the new
\* credential; store c has been installed meanwhile.
C34_Witness ==
    \E f \in Flows :
        /\ flows[f].pc = "done"
        /\ flows[f].code = 302
        /\ flows[f].existing = Uninstalled(InitialStores["idA"])
        /\ stores["idA"] = Reinstalled(InitialStores["idA"], f)
        /\ stores["idA"].brand_id = "brandA"
        /\ \E i \in DOMAIN stores : stores[i].store_hash = <<"c">> /\ stores[i].is_active

\* C35: a state token is accepted only if auth_start issued it, and no two
\* requests have been accepted with the same token.
C35_StateSingleUse ==
    \A f \in Flows :
        flows[f].accepted
            => /\ flows[f].state \in issued
               /\ \A g \in Flows :
                     (g # f /\ flows[g].accepted) => flows[g].state # flows[f].state

\* C36: a request reaches exchange_token or install_store only after its
\* state token has been accepted.
C36_ExchangeNeedsState ==
    \A f \in Flows :
        (flows[f].exchanged \/ flows[f].installed) => flows[f].accepted

ScopesOf(webhooks) == {webhooks[i] : i \in DOMAIN webhooks}

\* The scopes the platform may send.
WebhookScopes ==
    ScopesOf(required_scopes) \cup
    {"store/cart/created", "store/order/archived", "store/customer/created",
     "store/product/inventory/updated"}

\* route_webhook has a handler for the scope.
Handled(scope) ==
    \A o \in route_webhook(scope, InitialStores["idA"], Event(<<"a">>, scope, 7, 1),
                           InitialProducts) :
        o.result.status # "unhandled"

\* C38: the scopes register_all_webhooks requires are those route_webhook has
\* a handler for; every run creates webhooks only for scopes the store lacked,
\* each once; after a run that completed, the store has every required scope,
\* and a further run on the store's webhooks creates none.
C38_RegistrationIdempotent ==
    /\ {scope \in WebhookScopes : Handled(scope)} = ScopesOf(required_scopes)
    /\ \A f \in Flows :
          flows[f].registered # ""
              => /\ ScopesOf(flows[f].created) \cap ScopesOf(flows[f].had) = {}
                 /\ Cardinality(ScopesOf(flows[f].created)) = Len(flows[f].created)
                 /\ flows[f].registered = "complete"
                       => /\ ScopesOf(flows[f].created)
                                = ScopesOf(required_scopes) \ ScopesOf(flows[f].had)
                          /\ \A o \in register_all_webhooks(flows[f].had \o flows[f].created) :
                                o.created = <<>>

\* Store c was installed and its seven webhooks created; a second
\* installation found them and created none.
C38_Witness ==
    \E f, g \in Flows :
        /\ f # g
        /\ flows[f].registered = "complete" /\ flows[g].registered = "complete"
        /\ flows[f].store_hash = <<"c">> /\ flows[g].store_hash = <<"c">>
        /\ flows[f].had = <<>>
        /\ flows[f].created = required_scopes
        /\ flows[g].had = required_scopes
        /\ flows[g].created = <<>>
        /\ hooks[<<"c">>] = required_scopes

\* The checks of _check_memory_limit so far that admitted client ip.
Admitted(ip) ==
    {k \in DOMAIN verdicts.memory :
        verdicts.memory[k].ip = ip /\ ~verdicts.memory[k].limited}

\* The time of the last check of client ip, -Window before there is one.
LastCheck(ip) ==
    LET checks == {k \in DOMAIN verdicts.memory : verdicts.memory[k].ip = ip}
    IN  IF checks = {} THEN 0 - Window
        ELSE verdicts.memory[CHOOSE k \in checks : \A j \in checks : j <= k].at

\* C37: a request is refused by _check_memory_limit exactly when
\* requests_per_minute or more of the client's earlier admitted requests lie
\* within the last 60 seconds; in every 60-second window that starts at an
\* admitted request the client has at most requests_per_minute admitted
\* requests; the client's list holds its admitted requests of the 60 seconds
\* before its last check and nothing else (no refused and no exempt request);
\* and a request to a health or /webhooks path is never answered 429.
C37_MemoryLimit ==
    /\ \A k \in DOMAIN verdicts.memory :
          LET v == verdicts.memory[k]
          IN  /\ v.limited <=>
                    Cardinality({j \in Admitted(v.ip) :
                                    j < k /\ verdicts.memory[j].at > v.at - Window})
                        >= requests_per_minute
              /\ ~v.limited =>
                    Cardinality({j \in Admitted(v.ip) :
                                    /\ verdicts.memory[j].at >= v.at
                                    /\ verdicts.memory[j].at < v.at + Window})
                        <= requests_per_minute
    /\ \A ip \in ClientIPs :
          /\ Len(fallback_requests[ip]) =
                Cardinality({j \in Admitted(ip) :
                                verdicts.memory[j].at > LastCheck(ip) - Window})
          /\ \A i \in DOMAIN fallback_requests[ip] :
                \E j \in Admitted(ip) : verdicts.memory[j].at = fallback_requests[ip][i]
    /\ verdicts.last.exempt
          => /\ verdicts.last.code = 200
             /\ ~verdicts.last.limited

\* Client ip1 used its quota, was refused, and was admitted again 60 seconds
\* after its first request; the last request went to an exempt path while the
\* list of ip1 was full.
C37_Witness ==
    /\ Len(verdicts.memory) = requests_per_minute + 2
    /\ \A k \in DOMAIN verdicts.memory :
          /\ verdicts.memory[k].ip = "ip1"
          /\ verdicts.memory[k].limited <=> k = requests_per_minute + 1
    /\ verdicts.memory[requests_per_minute + 2].at = verdicts.memory[1].at + Window
    /\ Len(fallback_requests["ip1"]) = requests_per_minute
    /\ verdicts.last.exempt
    /\ verdicts.last.ip = "ip1"

====
